---- MODULE Spec2Model ----
(***************************************************************************)
(* Verification model of the dashboard's utility core:                     *)
(*   - CacheManager  (services/cache-manager.js)                           *)
(*   - DataCompressor (utils/data-compressor.js)                           *)
(*   - HtmlBundler   (utils/html-bundler.js)                               *)
(*   - StaticRouter  (routes/static.js), bundle mode                       *)
(*   - DataProcessor (services/data-processor.js) and getReviewData        *)
(*   - the callers of the cache: cached(), the Lambda handler, ApiRouter   *)
(*   - DynamoDBService.saveTeamData / getTeamData (services/dynamodb.js)   *)
(* Each component has its own specification (Spec, SpecKey, SpecCompress,  *)
(* SpecBundle, SpecStatic, SpecProcessor, SpecFlows, SpecLambda,           *)
(* SpecFields); the variables of the other components stay at their        *)
(* initial values.                                                         *)
(***************************************************************************)
EXTENDS Integers, Sequences, FiniteSets, TLC

VARIABLES
    \* ---- CacheManager fields
    cache,          \* this.cache: Map in insertion order, a sequence of entries
    maxSize,        \* this.maxSize
    currentSize,    \* this.currentSize
    hitCount,       \* this.hitCount
    missCount,      \* this.missCount
    now,            \* Date.now()
    \* ---- observation of the CacheManager (not program state)
    op,             \* the last cache operation: name, key, returned value, victims
    getCalls,       \* get calls since construction or the last clear
    touched,        \* keys by last touch (successful set / get hit), oldest first,
                    \* with the size stored by their last set; a key leaves it only
                    \* when delete, expiry or clear removes its entry
    \* ---- HtmlBundler and the files under publicDir
    files,          \* file name -> [ver: content version, mtime, status]
    bundledCache,   \* this.bundledCache: empty, or one [content, timestamp]
    call,           \* per createBundle() caller: position, locals, result
    mods,           \* file modifications so far
    clean,          \* no file was modified since bundledCache was last stored
    \* ---- DataCompressor and one compress/decompress round
    stats,          \* this.stats
    cdata,          \* the data passed to compress
    cforce,         \* the forceCompress argument
    cenv,           \* the envelope compress returned
    cout,           \* what decompress returned: [ok, val]; ok = FALSE when it threw
    cstage,         \* "input", "compressed" or "decompressed"
    ccalls,         \* rounds started so far
    \* ---- StaticRouter: one request for / or /index.html in bundle mode
    req,            \* position in handle()/serveBundledHtml(), and the response
    \* ---- one call of a pure function
    pin,            \* its arguments
    pout,           \* its result
    \* ---- callers of the CacheManager
    flow,           \* per cached() caller: position, key, ttl, result
    lam,            \* the Lambda invocation in progress, and its response
    store           \* version of the data behind the API routes

cacheOnlyVars == <<cache, maxSize, currentSize, hitCount, missCount, op, getCalls, touched>>
bundleVars == <<files, bundledCache, call, mods, clean, req>>
compressVars == <<stats, cdata, cforce, cenv, cout, cstage, ccalls>>
pureVars == <<pin, pout>>
flowVars == <<flow, lam, store>>

----------------------------------------------------------------------------
(* JSON values: tagged records [t, v].                                     *)

JNull == [t |-> "null", v |-> 0]
JUndefined == [t |-> "undefined", v |-> 0]
JBool(b) == [t |-> "bool", v |-> b]
JNum(n) == [t |-> "num", v |-> n]
JStr(s) == [t |-> "str", v |-> s]
JArr(s) == [t |-> "arr", v |-> s]
JObj(s) == [t |-> "obj", v |-> s]        \* s: sequence of <<name, value>>

Chars(n) == [i \in 1..n |-> "a"]

DigitChar(d) == <<"0", "1", "2", "3", "4", "5", "6", "7", "8", "9">>[d + 1]

RECURSIVE Digits(_)
Digits(n) == IF n < 10 THEN <<DigitChar(n)>>
             ELSE Digits(n \div 10) \o <<DigitChar(n % 10)>>

RECURSIVE Stringify(_)
RECURSIVE StringifyItems(_)
RECURSIVE StringifyMembers(_)
\* JSON.stringify on the value universe (no characters that need escaping)
Stringify(x) ==
    CASE x.t = "null" -> <<"n", "u", "l", "l">>
      [] x.t = "bool" -> IF x.v THEN <<"t", "r", "u", "e">> ELSE <<"f", "a", "l", "s", "e">>
      [] x.t = "num"  -> Digits(x.v)
      [] x.t = "str"  -> <<"\"">> \o x.v \o <<"\"">>
      [] x.t = "arr"  -> <<"[">> \o StringifyItems(x.v) \o <<"]">>
      [] x.t = "obj"  -> <<"{">> \o StringifyMembers(x.v) \o <<"}">>

StringifyItems(s) ==
    IF s = <<>> THEN <<>>
    ELSE IF Len(s) = 1 THEN Stringify(s[1])
    ELSE Stringify(s[1]) \o <<",">> \o StringifyItems(Tail(s))

StringifyMembers(s) ==
    IF s = <<>> THEN <<>>
    ELSE LET m == <<"\"">> \o s[1][1] \o <<"\"", ":">> \o Stringify(s[1][2])
         IN IF Len(s) = 1 THEN m ELSE m \o <<",">> \o StringifyMembers(Tail(s))

\* Buffer.byteLength(str, 'utf8') on single-byte characters
ByteLength(str) == Len(str)

----------------------------------------------------------------------------
(* CacheManager                                                            *)

Keys == {"A", "B", "C"}
\* constructor arguments: a small capacity, and the capacity of the spec's example
MaxSizes == {10, 1000}
\* values passed to set: serialized sizes 2, 4 and 12 bytes for capacity 10,
\* and 400 bytes for capacity 1000
ValuesFor(max) == IF max = 1000 THEN {JStr(Chars(398))}
                  ELSE {JStr(Chars(0)), JStr(Chars(2)), JStr(Chars(10))}
\* what set() can be handed: the values above, and undefined (a producer that
\* returns nothing, passed on by cached())
SetValues(max) == ValuesFor(max) \cup {JUndefined}
TTLs == {0, 1}
MaxTime == 1
MaxGets == 1
\* deletePattern arguments, with the keys each regular expression matches
Patterns == {"A", "B|C", ".", "("}
\* new RegExp(pattern) raises a SyntaxError on an unterminated group
RegexValid(p) == p # "("
RegexTest(p, k) ==
    CASE p = "A" -> k = "A"
      [] p = "B|C" -> k \in {"B", "C"}
      [] p = "." -> TRUE
      [] OTHER -> FALSE

KeysOf(c) == [i \in 1..Len(c) |-> c[i].key]
Has(c, k) == \E i \in 1..Len(c) : c[i].key = k
Entry(c, k) == c[CHOOSE i \in 1..Len(c) : c[i].key = k]
Without(c, k) == SelectSeq(c, LAMBDA e : e.key # k)

RECURSIVE SumSizes(_)
SumSizes(c) == IF c = <<>> THEN 0 ELSE c[1].size + SumSizes(Tail(c))

\* delete() that forgets to give the entry's bytes back
DeleteEntryKeepSize(st, k) ==
    IF Has(st.cache, k)
    THEN [st EXCEPT !.cache = Without(st.cache, k), !.ok = TRUE]
    ELSE [st EXCEPT !.ok = FALSE]

\* CacheManager.delete on the pair (cache, currentSize)
DeleteEntry(st, k) ==
    IF Has(st.cache, k)
    THEN [st EXCEPT !.cache = Without(st.cache, k),
                    !.currentSize = st.currentSize - Entry(st.cache, k).size,
                    !.ok = TRUE]
    ELSE [st EXCEPT !.ok = FALSE]

CacheState == [cache |-> cache, currentSize |-> currentSize, ok |-> FALSE, victims |-> <<>>, path |-> ""]

\* eviction that takes the newest key instead of the oldest
LastKey(c) == c[Len(c)].key

\* the key set() evicts next: the first key of the Map's iteration order
FirstKey(c) == c[1].key

RECURSIVE EvictLoop(_, _, _)
\* the while loop of set(): evict until the new entry fits or the cache is empty
EvictLoop(st, dataSize, max) ==
    IF st.currentSize + dataSize > max /\ Len(st.cache) > 0
    THEN LET k == FirstKey(st.cache)
             d == DeleteEntry(st, k)
         IN EvictLoop([d EXCEPT !.victims = Append(st.victims, k)], dataSize, max)
    ELSE st

\* a get() hit that leaves the entry where it is
MoveToEndKeep(c, k) == c

\* the LRU move of get(): cache.delete(key); cache.set(key, entry)
MoveToEnd(c, k) == Append(Without(c, k), Entry(c, k))

\* set() without its size check
TooLargeNever(dataSize, max) == FALSE

\* the size check of set()
TooLarge(dataSize, max) == dataSize > max

\* expiry tests with the comparison inverted, and with the boundary included
ExpiredInverted(e, t) == e.expiresAt > t
ExpiredInclusive(e, t) == e.expiresAt <= t

\* the expiry test of get() and evictExpired()
Expired(e, t) == e.expiresAt < t

Untouch(h, k) == SelectSeq(h, LAMBDA e : e.key # k)
Touch(h, k, sz) == Append(Untouch(h, k), [key |-> k, size |-> sz])
SizeIn(h, k) == h[CHOOSE i \in 1..Len(h) : h[i].key = k].size

NoOp == [name |-> "init", key |-> "", ret |-> JUndefined, victims |-> <<>>, path |-> ""]

CacheInit ==
    /\ cache = <<>>
    /\ maxSize \in MaxSizes
    /\ currentSize = 0
    /\ hitCount = 0
    /\ missCount = 0
    /\ now = 0
    /\ op = NoOp
    /\ getCalls = 0
    /\ touched = <<>>

\* set() that keeps the entry already stored under the key
RemoveExistingSkip(st, k) == st

\* if (this.cache.has(key)) this.delete(key)
RemoveExisting(st, k) == IF Has(st.cache, k) THEN DeleteEntry(st, k) ELSE st

\* JSON.stringify(undefined) is undefined, not a string, and
\* Buffer.byteLength(undefined, 'utf8') raises a TypeError
ByteLengthThrows(data) == data = JUndefined

\* an operation left by an exception: nothing was assigned before the throw
Threw(name) == [name |-> name, key |-> "", ret |-> JUndefined, victims |-> <<>>, path |-> "threw"]

\* set(key, data, ttl)
Set(k, data, ttl) ==
    LET dataSize == ByteLength(Stringify(data))
    IN IF ByteLengthThrows(data)
       THEN /\ op' = Threw("set")
            /\ UNCHANGED <<cache, maxSize, currentSize, hitCount, missCount, now, getCalls, touched>>
       ELSE IF TooLarge(dataSize, maxSize)
       THEN /\ op' = [name |-> "set", key |-> k, ret |-> JBool(FALSE), victims |-> <<>>, path |-> "rejected"]
            /\ UNCHANGED <<cache, maxSize, currentSize, hitCount, missCount, now, getCalls, touched>>
       ELSE LET s0 == CacheState
                s1 == RemoveExisting(s0, k)
                s2 == EvictLoop(s1, dataSize, maxSize)
                entry == [key |-> k, data |-> data, size |-> dataSize,
                          expiresAt |-> now + ttl, createdAt |-> now]
            IN /\ cache' = Append(s2.cache, entry)
               /\ currentSize' = s2.currentSize + dataSize
               /\ op' = [name |-> "set", key |-> k, ret |-> JBool(TRUE), victims |-> s2.victims,
                         path |-> IF Has(cache, k) THEN "replaced" ELSE "stored"]
               /\ touched' = Touch(touched, k, dataSize)
               /\ UNCHANGED <<maxSize, hitCount, missCount, now, getCalls>>

\* get(key), for callers that make at most maxCalls calls
GetWithin(k, maxCalls) ==
    /\ getCalls < maxCalls
    /\ getCalls' = getCalls + 1
    /\ IF ~Has(cache, k)
       THEN /\ missCount' = missCount + 1
            /\ op' = [name |-> "get", key |-> k, ret |-> JNull, victims |-> <<>>, path |-> "absent"]
            /\ UNCHANGED <<cache, maxSize, currentSize, hitCount, now, touched>>
       ELSE LET entry == Entry(cache, k)
            IN IF Expired(entry, now)
               THEN LET d == DeleteEntry(CacheState, k)
                    IN /\ cache' = d.cache
                       /\ currentSize' = d.currentSize
                       /\ missCount' = missCount + 1
                       /\ op' = [name |-> "get", key |-> k, ret |-> JNull, victims |-> <<>>, path |-> "expired"]
                       /\ touched' = Untouch(touched, k)
                       /\ UNCHANGED <<maxSize, hitCount, now>>
               ELSE /\ cache' = MoveToEnd(cache, k)
                    /\ hitCount' = hitCount + 1
                    /\ op' = [name |-> "get", key |-> k, ret |-> entry.data, victims |-> <<>>, path |-> "hit"]
                    /\ touched' = Touch(touched, k, SizeIn(touched, k))
                    /\ UNCHANGED <<maxSize, currentSize, missCount, now>>

\* get(key)
Get(k) == GetWithin(k, MaxGets)

\* delete(key)
Delete(k) ==
    LET d == DeleteEntry(CacheState, k)
    IN /\ cache' = d.cache
       /\ currentSize' = d.currentSize
       /\ op' = [name |-> "delete", key |-> k, ret |-> JBool(d.ok), victims |-> <<>>, path |-> ""]
       /\ touched' = IF d.ok THEN Untouch(touched, k) ELSE touched
       /\ UNCHANGED <<maxSize, hitCount, missCount, now, getCalls>>

RECURSIVE DeleteAll(_, _)
\* keysToDelete.forEach(key => this.delete(key))
DeleteAll(st, ks) ==
    IF ks = <<>> THEN st ELSE DeleteAll(DeleteEntry(st, ks[1]), Tail(ks))

RECURSIVE UntouchAll(_, _)
UntouchAll(h, ks) == IF ks = <<>> THEN h ELSE UntouchAll(Untouch(h, ks[1]), Tail(ks))

\* evictExpired()
EvictExpired ==
    LET keysToDelete == KeysOf(SelectSeq(cache, LAMBDA e : Expired(e, now)))
        d == DeleteAll(CacheState, keysToDelete)
    IN /\ cache' = d.cache
       /\ currentSize' = d.currentSize
       /\ op' = [name |-> "evictExpired", key |-> "", ret |-> JNum(Len(keysToDelete)),
                 victims |-> keysToDelete, path |-> ""]
       /\ touched' = UntouchAll(touched, keysToDelete)
       /\ UNCHANGED <<maxSize, hitCount, missCount, now, getCalls>>

\* deletePattern(pattern)
DeletePattern(p) ==
    LET keysToDelete == KeysOf(SelectSeq(cache, LAMBDA e : RegexTest(p, e.key)))
        d == DeleteAll(CacheState, keysToDelete)
    IN IF ~RegexValid(p)
       THEN /\ op' = Threw("deletePattern")
            /\ UNCHANGED <<cache, maxSize, currentSize, hitCount, missCount, now, getCalls, touched>>
       ELSE /\ cache' = d.cache
            /\ currentSize' = d.currentSize
            /\ op' = [name |-> "deletePattern", key |-> p, ret |-> JNum(Len(keysToDelete)),
                      victims |-> keysToDelete, path |-> ""]
            /\ touched' = UntouchAll(touched, keysToDelete)
            /\ UNCHANGED <<maxSize, hitCount, missCount, now, getCalls>>

\* clear()
Clear ==
    /\ cache' = <<>>
    /\ currentSize' = 0
    /\ hitCount' = 0
    /\ missCount' = 0
    /\ op' = [name |-> "clear", key |-> "", ret |-> JUndefined, victims |-> <<>>, path |-> ""]
    /\ getCalls' = 0
    /\ touched' = <<>>
    /\ UNCHANGED <<maxSize, now>>

\* the clock advances between operations
Tick ==
    /\ now < MaxTime
    /\ now' = now + 1
    /\ UNCHANGED <<cache, maxSize, currentSize, hitCount, missCount, op, getCalls, touched>>
    /\ UNCHANGED <<bundleVars, compressVars, pureVars, flowVars>>

DoSet ==
    /\ \E k \in Keys, v \in SetValues(maxSize), ttl \in TTLs : Set(k, v, ttl)
    /\ UNCHANGED <<bundleVars, compressVars, pureVars, flowVars>>
DoGet ==
    /\ \E k \in Keys : Get(k)
    /\ UNCHANGED <<bundleVars, compressVars, pureVars, flowVars>>
DoDelete ==
    /\ \E k \in Keys : Delete(k)
    /\ UNCHANGED <<bundleVars, compressVars, pureVars, flowVars>>
DoDeletePattern ==
    /\ \E p \in Patterns : DeletePattern(p)
    /\ UNCHANGED <<bundleVars, compressVars, pureVars, flowVars>>
DoEvictExpired == EvictExpired /\ UNCHANGED <<bundleVars, compressVars, pureVars, flowVars>>
DoClear == Clear /\ UNCHANGED <<bundleVars, compressVars, pureVars, flowVars>>

----------------------------------------------------------------------------
(* Callers of the singleton cache: overlapping cached() calls              *)

Flows == {1, 2}
FlowKeys == {"A", "B"}
\* get calls the callers make in all
MaxFlowGets == 3
\* what a producer resolves with: values of 6 and 12 serialized bytes, null,
\* and undefined (a producer that returns nothing)
ProducerResults == {JStr(Chars(4)), JStr(Chars(10)), JNull, JUndefined}

\* nothing was returned
NoValue == [t |-> "none", v |-> 0]
\* a cached() call; raced (observation): another call was awaiting its
\* producer when this one stored its result
IdleFlow == [pc |-> "idle", key |-> "", ttl |-> 0, ret |-> NoValue,
             invoked |-> FALSE, threw |-> FALSE, raced |-> FALSE]

\* cached !== null
IsCached(value) == value # JNull

\* cached(key, fn, ttl): this.get(key), then the return of the cached value or
\* the call of fn, up to the await
CachedEnter(f, k, ttl) ==
    /\ flow[f].pc \in {"idle", "done"}
    /\ GetWithin(k, MaxFlowGets)
    /\ flow' = [flow EXCEPT ![f] =
                  IF IsCached(op'.ret)
                  THEN [IdleFlow EXCEPT !.pc = "done", !.key = k, !.ttl = ttl, !.ret = op'.ret]
                  ELSE [IdleFlow EXCEPT !.pc = "awaiting", !.key = k, !.ttl = ttl,
                                        !.invoked = TRUE]]
    /\ UNCHANGED <<lam, store, bundleVars, compressVars, pureVars>>

\* cached(): fn() resolved; this.set(key, result, ttl); return result. An
\* exception of set() rejects the call.
CachedResume(f, result) ==
    /\ flow[f].pc = "awaiting"
    /\ Set(flow[f].key, result, flow[f].ttl)
    /\ flow' = [flow EXCEPT ![f].pc = "done",
                            ![f].ret = IF op'.path = "threw" THEN NoValue ELSE result,
                            ![f].threw = (op'.path = "threw"),
                            ![f].raced = \E g \in Flows \ {f} : flow[g].pc = "awaiting"]
    /\ UNCHANGED <<lam, store, bundleVars, compressVars, pureVars>>

\* cached(): fn() rejected, and cached() with it; set() is not reached
CachedReject(f) ==
    /\ flow[f].pc = "awaiting"
    /\ flow' = [flow EXCEPT ![f].pc = "done", ![f].threw = TRUE]
    /\ UNCHANGED <<cacheOnlyVars, now, lam, store, bundleVars, compressVars, pureVars>>

----------------------------------------------------------------------------
(* HtmlBundler                                                             *)

Callers == {1, 2}
MaxMods == 2
IndexHtml == "index.html"
\* the entry document and the local stylesheet, script and image it references
FileNames == {IndexHtml, "styles.css", "app.js", "logo.png"}
ExtName(f) ==
    CASE f = IndexHtml -> ".html"
      [] f = "styles.css" -> ".css"
      [] f = "app.js" -> ".js"
      [] f = "logo.png" -> ".png"

\* the extensions getFileStats() collects
StatExtensions == {".html", ".css", ".js"}

\* what the file system holds under a name: a readable file, nothing (ENOENT),
\* or a file the process may not read (EACCES)
Statuses == {"ok", "missing", "denied"}

\* Math.max(...[]) is -Infinity: below every timestamp
NegInfinity == 0 - 1
Max(S) == IF S = {} THEN NegInfinity ELSE CHOOSE x \in S : \A y \in S : y <= x

\* getFileStats().latestModification, over the files readdir lists
LatestModification(fs) ==
    Max({fs[f].mtime : f \in {g \in FileNames : /\ ExtName(g) \in StatExtensions
                                                 /\ fs[g].status # "missing"}})

\* a memoized bundle that accepts only a timestamp later than every mtime
BundleFreshStrict(timestamp, latest) == timestamp > latest

\* the test of createBundle() for serving the memoized bundle
BundleFresh(timestamp, latest) == timestamp >= latest

NoVer == 0 - 1
IdleCall == [pc |-> "idle", cachedBundle |-> <<>>, html |-> NoVer, css |-> NoVer,
             js |-> NoVer, img |-> NoVer, reads |-> 0, ret |-> <<>>, failed |-> FALSE,
             expect |-> <<>>, stale |-> FALSE, fresh |-> FALSE]

\* the response of the router, before handle() has produced one
IdleReq == [pc |-> "idle", status |-> 0, bundled |-> FALSE, body |-> <<>>]

\* the versions of the sources a bundle was built from
Sources(content) == [html |-> content.html, css |-> content.css, js |-> content.js, img |-> content.img]
CurrentSources == [html |-> files[IndexHtml].ver, css |-> files["styles.css"].ver,
                   js |-> files["app.js"].ver, img |-> files["logo.png"].ver]

BundleInit ==
    /\ files = [f \in FileNames |-> [ver |-> 0, mtime |-> 0, status |-> "ok"]]
    /\ bundledCache = <<>>
    /\ req = IdleReq
    /\ call = [c \in Callers |-> IdleCall]
    /\ mods = 0
    /\ clean = TRUE

\* createBundle(): bundledCache.get(cacheKey), up to the first await
CreateBundleEnter(c) ==
    /\ call[c].pc = "idle"
    /\ call' = [call EXCEPT ![c] =
                  [IdleCall EXCEPT !.pc = IF bundledCache # <<>> THEN "stat" ELSE "readHtml",
                                   !.cachedBundle = bundledCache,
                                   !.expect = IF bundledCache # <<>> /\ clean
                                              THEN <<bundledCache[1].content>> ELSE <<>>,
                                   !.stale = (/\ bundledCache # <<>>
                                              /\ \E f \in FileNames :
                                                    files[f].mtime > bundledCache[1].timestamp),
                                   !.fresh = TRUE]]
    /\ UNCHANGED <<files, bundledCache, mods, clean, now>>

\* createBundle() called on its own
BundleStart(c) ==
    /\ CreateBundleEnter(c)
    /\ UNCHANGED <<cacheOnlyVars, compressVars, pureVars, flowVars, req>>

\* createBundle(): await getFileStats() and the timestamp comparison
BundleStat(c) ==
    /\ call[c].pc = "stat"
    /\ IF BundleFresh(call[c].cachedBundle[1].timestamp, LatestModification(files))
       THEN call' = [call EXCEPT ![c].pc = "idle",
                                 ![c].ret = <<call[c].cachedBundle[1].content>>]
       ELSE call' = [call EXCEPT ![c].pc = "readHtml"]
    /\ UNCHANGED <<files, bundledCache, mods, clean, now>>
    /\ UNCHANGED <<cacheOnlyVars, compressVars, pureVars, flowVars, req>>

\* createBundle() in which a failing stylesheet, script or image is fatal too
FatalAll(f) == TRUE

\* the reads whose failure createBundle() does not catch: only the entry
\* document is read outside inlineCss/inlineJs/inlineImage's try blocks
Fatal(f) == f = IndexHtml

\* one fs.readFile of createBundle(): the content read; or the rejection of
\* createBundle(); or the null of the inline step, which leaves the tag as it is
ReadStep(c, f, field, next) ==
    IF files[f].status = "ok"
    THEN [call EXCEPT ![c].pc = next, ![c][field] = files[f].ver, ![c].reads = @ + 1]
    ELSE IF Fatal(f)
         THEN [call EXCEPT ![c].pc = "idle", ![c].failed = TRUE, ![c].reads = @ + 1]
         ELSE [call EXCEPT ![c].pc = next, ![c].reads = @ + 1]

\* createBundle(): fs.readFile(index.html)
BundleReadHtml(c) ==
    /\ call[c].pc = "readHtml"
    /\ call' = ReadStep(c, IndexHtml, "html", "readCss")
    /\ UNCHANGED <<files, bundledCache, mods, clean, now>>
    /\ UNCHANGED <<cacheOnlyVars, compressVars, pureVars, flowVars, req>>

\* inlineCss(): fs.readFile of the stylesheet
BundleReadCss(c) ==
    /\ call[c].pc = "readCss"
    /\ call' = ReadStep(c, "styles.css", "css", "readJs")
    /\ UNCHANGED <<files, bundledCache, mods, clean, now>>
    /\ UNCHANGED <<cacheOnlyVars, compressVars, pureVars, flowVars, req>>

\* inlineJs(): fs.readFile of the script
BundleReadJs(c) ==
    /\ call[c].pc = "readJs"
    /\ call' = ReadStep(c, "app.js", "js", "readImg")
    /\ UNCHANGED <<files, bundledCache, mods, clean, now>>
    /\ UNCHANGED <<cacheOnlyVars, compressVars, pureVars, flowVars, req>>

\* inlineImage(): fs.readFile of the image
BundleReadImg(c) ==
    /\ call[c].pc = "readImg"
    /\ call' = ReadStep(c, "logo.png", "img", "store")
    /\ UNCHANGED <<files, bundledCache, mods, clean, now>>
    /\ UNCHANGED <<cacheOnlyVars, compressVars, pureVars, flowVars, req>>

\* addBundleInfo() and bundledCache.set(cacheKey, {content, timestamp: Date.now()})
BundleStore(c) ==
    /\ call[c].pc = "store"
    /\ LET content == [html |-> call[c].html, css |-> call[c].css, js |-> call[c].js,
                       img |-> call[c].img, generatedAt |-> now]
       IN /\ bundledCache' = <<[content |-> content, timestamp |-> now]>>
          /\ call' = [call EXCEPT ![c].pc = "idle", ![c].ret = <<content>>]
    /\ clean' = TRUE
    /\ UNCHANGED <<files, mods, now>>
    /\ UNCHANGED <<cacheOnlyVars, compressVars, pureVars, flowVars, req>>

\* clearCache()
ClearCache ==
    /\ bundledCache # <<>>
    /\ bundledCache' = <<>>
    /\ call' = [c \in Callers |-> [call[c] EXCEPT !.expect = <<>>]]
    /\ UNCHANGED <<files, mods, clean, now>>
    /\ UNCHANGED <<cacheOnlyVars, compressVars, pureVars, flowVars, req>>

\* a source file is rewritten: new content, mtime = the time of the write
ModifyFile(f) ==
    /\ mods < MaxMods
    /\ mods' = mods + 1
    /\ files' = [files EXCEPT ![f] = [ver |-> @.ver + 1, mtime |-> now, status |-> "ok"]]
    /\ clean' = FALSE
    /\ call' = [c \in Callers |-> [call[c] EXCEPT !.expect = <<>>, !.fresh = FALSE]]
    /\ UNCHANGED <<bundledCache, now>>
    /\ UNCHANGED <<cacheOnlyVars, compressVars, pureVars, flowVars, req>>

BundleTick ==
    /\ now < MaxTime
    /\ now' = now + 1
    /\ UNCHANGED <<files, bundledCache, call, mods, clean>>
    /\ UNCHANGED <<cacheOnlyVars, compressVars, pureVars, flowVars, req>>

\* a file under publicDir is removed, made unreadable, or put back (a file
\* that was removed comes back as a new file)
SetFileStatus(f, st) ==
    /\ mods < MaxMods
    /\ files[f].status # st
    /\ mods' = mods + 1
    /\ files' = [files EXCEPT ![f] =
                    IF st = "ok" /\ @.status = "missing"
                    THEN [ver |-> @.ver + 1, mtime |-> now, status |-> "ok"]
                    ELSE [@ EXCEPT !.status = st]]
    /\ clean' = FALSE
    /\ call' = [c \in Callers |-> [call[c] EXCEPT !.expect = <<>>, !.fresh = FALSE]]
    /\ UNCHANGED <<bundledCache, now>>
    /\ UNCHANGED <<cacheOnlyVars, compressVars, pureVars, flowVars, req>>

----------------------------------------------------------------------------
(* StaticRouter in bundle mode, serving / or /index.html                   *)

\* the createBundle() caller the router is
RouterCaller == 1

\* handle() without its try/catch: the exception leaves handle()
HandleRethrow(r) == [r EXCEPT !.pc = "threw"]

\* the catch of handle(): createErrorResponse(500, ...)
HandleCatch(r) == [r EXCEPT !.pc = "done", !.status = 500]

\* readFile(): ENOENT, or not a file -> { exists: false } -> the 404 of serveRegularFile()
NotFound(r) == [r EXCEPT !.pc = "done", !.status = 404]

\* handle() -> serveBundledHtml() -> createBundle(), up to its first await
RouterHandle ==
    /\ req.pc \in {"idle", "done"}
    /\ CreateBundleEnter(RouterCaller)
    /\ req' = [IdleReq EXCEPT !.pc = "createBundle"]
    /\ UNCHANGED <<cacheOnlyVars, compressVars, pureVars, flowVars>>

\* serveBundledHtml(): createBundle() has settled; on a rejection the catch
\* block calls serveRegularFile('/index.html')
RouterBundleSettled ==
    /\ req.pc = "createBundle"
    /\ call[RouterCaller].pc = "idle"
    /\ req' = IF call[RouterCaller].failed
               THEN [req EXCEPT !.pc = "fallbackStat"]
               ELSE [req EXCEPT !.pc = "getBundleStats", !.body = call[RouterCaller].ret]
    /\ UNCHANGED <<files, bundledCache, call, mods, clean, now>>
    /\ UNCHANGED <<cacheOnlyVars, compressVars, pureVars, flowVars>>

\* getBundleStats(): getFileStats(), then createBundle() once more
RouterStatsBundle ==
    /\ req.pc = "getBundleStats"
    /\ CreateBundleEnter(RouterCaller)
    /\ req' = [req EXCEPT !.pc = "statsBundle"]
    /\ UNCHANGED <<cacheOnlyVars, compressVars, pureVars, flowVars>>

\* getBundleStats() has settled (with null when its createBundle() threw):
\* the 200 response carrying the bundle
RouterRespond ==
    /\ req.pc = "statsBundle"
    /\ call[RouterCaller].pc = "idle"
    /\ req' = [req EXCEPT !.pc = "done", !.status = 200, !.bundled = TRUE]
    /\ UNCHANGED <<files, bundledCache, call, mods, clean, now>>
    /\ UNCHANGED <<cacheOnlyVars, compressVars, pureVars, flowVars>>

\* readFile('/index.html'): fs.stat
RouterFallbackStat ==
    /\ req.pc = "fallbackStat"
    /\ req' = IF files[IndexHtml].status = "missing"
               THEN NotFound(req)
               ELSE [req EXCEPT !.pc = "fallbackRead"]
    /\ UNCHANGED <<files, bundledCache, call, mods, clean, now>>
    /\ UNCHANGED <<cacheOnlyVars, compressVars, pureVars, flowVars>>

\* readFile('/index.html'): fs.readFile, then createFileResponse
RouterFallbackRead ==
    /\ req.pc = "fallbackRead"
    /\ req' = CASE files[IndexHtml].status = "ok" ->
                      [req EXCEPT !.pc = "done", !.status = 200,
                                  !.body = <<[html |-> files[IndexHtml].ver]>>]
                 [] files[IndexHtml].status = "missing" -> NotFound(req)
                 [] files[IndexHtml].status = "denied" -> HandleCatch(req)
    /\ UNCHANGED <<files, bundledCache, call, mods, clean, now>>
    /\ UNCHANGED <<cacheOnlyVars, compressVars, pureVars, flowVars>>

----------------------------------------------------------------------------
(* JSON.parse on the strings Stringify produces                            *)

IsDigit(ch) == ch \in {"0", "1", "2", "3", "4", "5", "6", "7", "8", "9"}
DigitVal(ch) == CHOOSE d \in 0..9 : DigitChar(d) = ch

\* the position of the first double quote at or after position i
NextQuote(s, i) ==
    LET Q == {j \in i..Len(s) : s[j] = "\""}
    IN CHOOSE j \in Q : \A m \in Q : j <= m

RECURSIVE ParseNumber(_, _, _)
ParseNumber(s, i, acc) ==
    IF i <= Len(s) /\ IsDigit(s[i])
    THEN ParseNumber(s, i + 1, 10 * acc + DigitVal(s[i]))
    ELSE [val |-> JNum(acc), next |-> i]

RECURSIVE ParseValue(_, _)
RECURSIVE ParseItems(_, _, _)
RECURSIVE ParseMembers(_, _, _)
\* parses the value that starts at position i: [val, next]
ParseValue(s, i) ==
    CASE s[i] = "n" -> [val |-> JNull, next |-> i + 4]
      [] s[i] = "t" -> [val |-> JBool(TRUE), next |-> i + 4]
      [] s[i] = "f" -> [val |-> JBool(FALSE), next |-> i + 5]
      [] s[i] = "\"" -> LET j == NextQuote(s, i + 1)
                        IN [val |-> JStr(SubSeq(s, i + 1, j - 1)), next |-> j + 1]
      [] s[i] = "[" -> IF s[i + 1] = "]" THEN [val |-> JArr(<<>>), next |-> i + 2]
                       ELSE ParseItems(s, i + 1, <<>>)
      [] s[i] = "{" -> IF s[i + 1] = "}" THEN [val |-> JObj(<<>>), next |-> i + 2]
                       ELSE ParseMembers(s, i + 1, <<>>)
      [] OTHER -> ParseNumber(s, i, 0)

ParseItems(s, i, acc) ==
    LET r == ParseValue(s, i)
        acc2 == Append(acc, r.val)
    IN IF s[r.next] = "," THEN ParseItems(s, r.next + 1, acc2)
       ELSE [val |-> JArr(acc2), next |-> r.next + 1]

ParseMembers(s, i, acc) ==
    LET j == NextQuote(s, i + 1)
        name == SubSeq(s, i + 1, j - 1)
        r == ParseValue(s, j + 2)
        acc2 == Append(acc, <<name, r.val>>)
    IN IF s[r.next] = "," THEN ParseMembers(s, r.next + 1, acc2)
       ELSE [val |-> JObj(acc2), next |-> r.next + 1]

Parse(s) == ParseValue(s, 1).val

----------------------------------------------------------------------------
(* DataCompressor                                                          *)

minCompressionSize == 1024
MaxCalls == 2

\* the data handed to compress
Inputs ==
    { JNull, JBool(FALSE), JBool(TRUE), JNum(0), JNum(1), JNum(42),
      JStr(<<>>), JStr(<<"a">>), JStr(Chars(1100)),
      JArr(<<>>), JArr(<<JNum(0)>>), JArr(<<JNull, JStr(<<>>), JBool(FALSE)>>),
      JObj(<<>>), JObj(<< <<(<<"a">>), JNum(1)>> >>),
      JObj(<< <<(<<"a">>), JArr(<<JNum(1), JNum(20)>>)>>, <<(<<"b">>), JObj(<< <<(<<"c">>), JStr(<<"d">>)>> >>)>> >>) }

\* JavaScript truthiness: !data holds for null, undefined, false, 0 and ""
Falsy(x) ==
    \/ x.t \in {"null", "undefined"}
    \/ x.t = "bool" /\ x.v = FALSE
    \/ x.t = "num" /\ x.v = 0
    \/ x.t = "str" /\ x.v = <<>>

\* zlib and Buffer are libraries: gzip is a lossless container of its input,
\* toString('base64') a lossless text form of the bytes
Gzip(str) == [t |-> "gz", v |-> str]
ToBase64(bytes) == [t |-> "b64", v |-> bytes]
\* the sizes gzip may produce for an input of n bytes: a good and a poor ratio
GzipSizes(n) == {n \div 4 + 18, n + 18}

NoSize == 0 - 1
\* an envelope without sizes; gz is not a field of the envelope: it observes the
\* length of the gzip output when compress ran gzip
NoEnvelope == [compressed |-> FALSE, data |-> JUndefined, originalSize |-> NoSize,
               compressedSize |-> NoSize, ratioOne |-> FALSE, gz |-> NoSize]
NoOutput == [ok |-> TRUE, val |-> JUndefined, arg |-> NoEnvelope]
NoStats == [compressed |-> 0, decompressed |-> 0, totalOriginalSize |-> 0, totalCompressedSize |-> 0]

\* the envelope of the two early returns of compress
Uncompressed(data, originalSize) ==
    [compressed |-> FALSE, data |-> data, originalSize |-> originalSize,
     compressedSize |-> originalSize, ratioOne |-> TRUE, gz |-> NoSize]

\* compressionRatio < 1.2, the ratio being originalSize / compressedSize
PoorRatio(originalSize, compressedSize) == 10 * originalSize < 12 * compressedSize

CompressInit ==
    /\ stats = NoStats
    /\ cdata = JNull
    /\ cforce = FALSE
    /\ cenv = NoEnvelope
    /\ cout = NoOutput
    /\ cstage = "input"
    /\ ccalls = 0

\* compress(data, forceCompress)
Compress ==
    /\ cstage = "input"
    /\ cstage' = "compressed"
    /\ IF Falsy(cdata)
       THEN /\ cenv' = [NoEnvelope EXCEPT !.data = JNull]
            /\ UNCHANGED stats
       ELSE LET jsonString == Stringify(cdata)
                originalSize == ByteLength(jsonString)
            IN IF ~cforce /\ originalSize < minCompressionSize
               THEN /\ cenv' = Uncompressed(cdata, originalSize)
                    /\ UNCHANGED stats
               ELSE \E compressedSize \in GzipSizes(originalSize) :
                        IF ~cforce /\ PoorRatio(originalSize, compressedSize)
                        THEN /\ cenv' = [Uncompressed(cdata, originalSize)
                                            EXCEPT !.gz = compressedSize]
                             /\ UNCHANGED stats
                        ELSE /\ stats' = [stats EXCEPT
                                            !.compressed = @ + 1,
                                            !.totalOriginalSize = @ + originalSize,
                                            !.totalCompressedSize = @ + compressedSize]
                             /\ cenv' = [compressed |-> TRUE,
                                         data |-> ToBase64(Gzip(jsonString)),
                                         originalSize |-> originalSize,
                                         compressedSize |-> compressedSize,
                                         ratioOne |-> FALSE,
                                         gz |-> compressedSize]
    /\ UNCHANGED <<cdata, cforce, cout, ccalls>>
    /\ UNCHANGED <<cacheOnlyVars, now, bundleVars, pureVars, flowVars>>

\* typeof x === 'object'
TypeofObject(x) == x.t \in {"obj", "arr", "null"}

\* texts JSON.parse rejects with a SyntaxError
MalformedJson == {<<>>, <<"{">>}
ParseThrows(str) == str \in MalformedJson

\* envelopes that compress did not produce as they are: the flag set on data
\* that was never compressed, the flag cleared, a string that is not a gzip
\* stream, and a gzip stream of a text that is not JSON
Corrupted(e) ==
    {[e EXCEPT !.compressed = ~e.compressed],
     [e EXCEPT !.compressed = TRUE, !.data = JNull],
     [e EXCEPT !.compressed = TRUE, !.data = JStr(<<"a">>)],
     [e EXCEPT !.compressed = TRUE, !.data = ToBase64(Gzip(<<"{">>))]}

\* decompress(compressedData) on an envelope: what it returns ([ok, val], ok =
\* FALSE when it throws) and whether stats.decompressed was incremented
DecompressResult(e) ==
    IF ~e.compressed
    THEN [ok |-> TRUE, val |-> e.data, counted |-> FALSE]
    ELSE IF e.data.t = "b64" /\ e.data.v.t = "gz" /\ ~ParseThrows(e.data.v.v)
         THEN [ok |-> TRUE, val |-> Parse(e.data.v.v), counted |-> TRUE]
         ELSE IF TypeofObject(e.data)
              THEN [ok |-> TRUE, val |-> e.data, counted |-> FALSE]
              ELSE [ok |-> FALSE, val |-> JUndefined, counted |-> FALSE]

\* decompress called with the envelope e
DecompressOf(e, stage) ==
    /\ cstage = "compressed"
    /\ cstage' = stage
    /\ LET r == DecompressResult(e)
       IN /\ cout' = [ok |-> r.ok, val |-> r.val, arg |-> e]
          /\ stats' = IF r.counted THEN [stats EXCEPT !.decompressed = @ + 1] ELSE stats
    /\ UNCHANGED <<cdata, cforce, cenv, ccalls>>
    /\ UNCHANGED <<cacheOnlyVars, now, bundleVars, pureVars, flowVars>>

\* decompress(compressedData) on the envelope compress returned
Decompress == DecompressOf(cenv, "decompressed")

\* decompress(compressedData) on an envelope that was damaged in storage
DecompressCorrupt == \E e \in Corrupted(cenv) : DecompressOf(e, "recovered")

\* the caller starts another round with new arguments
NextRound ==
    /\ cstage \in {"decompressed", "recovered"}
    /\ ccalls < MaxCalls
    /\ ccalls' = ccalls + 1
    /\ cdata' \in Inputs
    /\ cforce' \in BOOLEAN
    /\ cenv' = NoEnvelope
    /\ cout' = NoOutput
    /\ cstage' = "input"
    /\ UNCHANGED stats
    /\ UNCHANGED <<cacheOnlyVars, now, bundleVars, pureVars, flowVars>>

\* getStats(): the counters and totals it reports
GetStats(st) ==
    [compressed |-> st.compressed, decompressed |-> st.decompressed,
     totalOriginalSize |-> st.totalOriginalSize,
     totalCompressedSize |-> st.totalCompressedSize,
     totalSavingsBytes |-> st.totalOriginalSize - st.totalCompressedSize]

\* resetStats()
ResetStats ==
    /\ stats # NoStats
    /\ stats' = NoStats
    /\ UNCHANGED <<cdata, cforce, cenv, cout, cstage, ccalls>>
    /\ UNCHANGED <<cacheOnlyVars, now, bundleVars, pureVars, flowVars>>

vars == <<cache, maxSize, currentSize, hitCount, missCount, now, op, getCalls, touched,
          files, bundledCache, call, mods, clean,
          stats, cdata, cforce, cenv, cout, cstage, ccalls, req, pin, pout,
          flow, lam, store>>

----------------------------------------------------------------------------
(* DataProcessor, and the getReviewData route that calls it                *)

UpperCase == <<"A", "B", "C", "D", "E", "F", "G", "H", "I", "J", "K", "L", "M",
               "N", "O", "P", "Q", "R", "S", "T", "U", "V", "W", "X", "Y", "Z">>
LowerCase == <<"a", "b", "c", "d", "e", "f", "g", "h", "i", "j", "k", "l", "m",
               "n", "o", "p", "q", "r", "s", "t", "u", "v", "w", "x", "y", "z">>

\* String.prototype.toLowerCase on ASCII text
ToLowerCase(str) ==
    [i \in 1..Len(str) |->
        IF \E j \in 1..26 : UpperCase[j] = str[i]
        THEN LowerCase[CHOOSE j \in 1..26 : UpperCase[j] = str[i]]
        ELSE str[i]]

\* String.prototype.includes
Includes(str, part) ==
    \E i \in 0..(Len(str) - Len(part)) : SubSeq(str, i + 1, i + Len(part)) = part

\* this.botPatterns
botPatterns ==
    <<<<"b", "o", "t">>,
      <<"[", "b", "o", "t", "]">>,
      <<"d", "e", "p", "e", "n", "d", "a", "b", "o", "t">>,
      <<"g", "i", "t", "h", "u", "b", "-", "a", "c", "t", "i", "o", "n", "s">>,
      <<"r", "e", "n", "o", "v", "a", "t", "e">>,
      <<"g", "r", "e", "e", "n", "k", "e", "e", "p", "e", "r">>,
      <<"c", "o", "d", "e", "c", "o", "v">>,
      <<"s", "n", "y", "k">>>>

\* a bot test that compares the username as it is written
IsBotAccountExact(username) ==
    \E i \in 1..Len(botPatterns) : Includes(username, ToLowerCase(botPatterns[i]))

\* isBotAccount(username)
IsBotAccount(username) ==
    \E i \in 1..Len(botPatterns) :
        Includes(ToLowerCase(username), ToLowerCase(botPatterns[i]))

\* filterBotAccounts(data): data is an object, a sequence of <<username, userData>>
FilterBotAccounts(data) == SelectSeq(data, LAMBDA e : ~IsBotAccount(e[1]))

\* !teamData
NoTeamData(teamData) == teamData.t \in {"null", "undefined"}

\* memberUsernames: the logins of the members of every team that has members
MemberUsernames(teamData) ==
    UNION {{teamData.v[i][2].members[j] : j \in 1..Len(teamData.v[i][2].members)} :
              i \in {k \in 1..Len(teamData.v) : teamData.v[k][2].hasMembers}}

\* filterNonMembers(prData, teamData)
FilterNonMembers(prData, teamData) ==
    IF NoTeamData(teamData)
    THEN [prData EXCEPT !.data = FilterBotAccounts(prData.data)]
    ELSE [prData EXCEPT !.data =
            SelectSeq(prData.data,
                      LAMBDA e : e[1] \in MemberUsernames(teamData) /\ ~IsBotAccount(e[1]))]

\* validateAndFixData(prData), for user records that carry the two counts
ValidateAndFixData(prData) ==
    [prData EXCEPT !.data =
        [i \in 1..Len(prData.data) |->
            <<prData.data[i][1],
              [created_count |-> Max({0, prData.data[i][2].created_count}),
               reviewed_count |-> Max({0, prData.data[i][2].reviewed_count}),
               avatar_url |-> "", created_prs |-> <<>>, reviewed_prs |-> <<>>]>>]]

\* getTeamData(): result.Item?.teams || {}
GetTeamData(item) == IF item.t = "obj" THEN item ELSE [t |-> "obj", v |-> <<>>]

\* getStoredTeamData(): { teams: teamData }
GetStoredTeamData(item) == [teams |-> GetTeamData(item)]

\* getReviewData(): the 200 response
GetReviewData(prData, item) ==
    [statusCode |-> 200,
     body |-> FilterNonMembers(ValidateAndFixData(prData), GetStoredTeamData(item).teams)]

\* the usernames of the stored pull-request data
Alice == <<"a", "l", "i", "c", "e">>
Bob == <<"b", "o", "b">>
Talbot == <<"T", "a", "l", "b", "o", "t">>
Renovate == <<"R", "e", "n", "o", "v", "a", "t", "e">>
DependabotBot == <<"d", "e", "p", "e", "n", "d", "a", "b", "o", "t", "[", "b", "o", "t", "]">>
UserNames == {Alice, Bob, Talbot, Renovate, DependabotBot}
AllUsers ==
    << <<Alice, [created_count |-> 1, reviewed_count |-> 0]>>,
       <<DependabotBot, [created_count |-> 2, reviewed_count |-> 0]>>,
       <<Bob, [created_count |-> 3, reviewed_count |-> 1]>>,
       <<Renovate, [created_count |-> 4, reviewed_count |-> 0]>>,
       <<Talbot, [created_count |-> 5, reviewed_count |-> 2]>> >>
DataMaps == {SelectSeq(AllUsers, LAMBDA e : e[1] \in S) : S \in SUBSET UserNames}

\* team data: none, an empty team map, and maps of one and of two teams
NoTeams == [t |-> "null", v |-> <<>>]
TeamMaps ==
    { NoTeams,
      [t |-> "obj", v |-> <<>>],
      [t |-> "obj", v |-> << <<"core", [hasMembers |-> TRUE, members |-> <<Alice, DependabotBot>>]>> >>],
      [t |-> "obj", v |-> << <<"core", [hasMembers |-> TRUE, members |-> <<Alice>>]>>,
                             <<"web", [hasMembers |-> TRUE, members |-> <<Bob, Renovate>>]>>,
                             <<"new", [hasMembers |-> FALSE, members |-> <<>>]>> >>] }

NoResult == [fn |-> "", val |-> <<>>]

\* the arguments of the next call
ProcessorInit ==
    /\ pin \in [prData : [data : DataMaps, pr_details : {<<>>}], teamData : TeamMaps]
    /\ pout = NoResult

\* a call of filterBotAccounts(prData.data)
CallFilterBotAccounts ==
    /\ pout = NoResult
    /\ pout' = [fn |-> "filterBotAccounts", val |-> FilterBotAccounts(pin.prData.data)]
    /\ UNCHANGED <<pin, cacheOnlyVars, now, bundleVars, compressVars, flowVars>>

\* a call of filterNonMembers(prData, teamData)
CallFilterNonMembers ==
    /\ pout = NoResult
    /\ pout' = [fn |-> "filterNonMembers", val |-> FilterNonMembers(pin.prData, pin.teamData)]
    /\ UNCHANGED <<pin, cacheOnlyVars, now, bundleVars, compressVars, flowVars>>

\* GET review data, with prData and teamData as the stored items
CallGetReviewData ==
    /\ pout = NoResult
    /\ pout' = [fn |-> "getReviewData", val |-> GetReviewData(pin.prData, pin.teamData)]
    /\ UNCHANGED <<pin, cacheOnlyVars, now, bundleVars, compressVars, flowVars>>

----------------------------------------------------------------------------
(* CacheManager.generateKey                                                *)

\* the UTF-16 code units of the characters parameter names are written with
CodeUnit(ch) ==
    CASE ch = "B" -> 66
      [] ch = "a" -> 97
      [] ch = "b" -> 98
      [] OTHER -> 48 + DigitVal(ch)

RECURSIVE LessStr(_, _)
\* the default comparison of Array.prototype.sort: by code units, a proper
\* prefix first
LessStr(x, y) ==
    IF y = <<>> THEN FALSE
    ELSE IF x = <<>> THEN TRUE
    ELSE IF x[1] = y[1] THEN LessStr(Tail(x), Tail(y))
    ELSE CodeUnit(x[1]) < CodeUnit(y[1])

RemoveAt(q, i) == SubSeq(q, 1, i - 1) \o SubSeq(q, i + 1, Len(q))

RECURSIVE SortAscending(_)
\* Array.prototype.sort() on distinct strings
SortAscending(names) ==
    IF names = <<>> THEN <<>>
    ELSE LET m == CHOOSE i \in 1..Len(names) :
                      \A j \in 1..Len(names) : ~LessStr(names[j], names[i])
         IN <<names[m]>> \o SortAscending(RemoveAt(names, m))

\* generateKey that takes the names as they were inserted
SortKeysKeep(names) == names

\* Object.keys(params).sort()
SortKeys(names) == SortAscending(names)

\* a property name that is an array index: enumerated before the other names,
\* in ascending numeric order
IsIndexKey(name) ==
    /\ name # <<>>
    /\ \A i \in 1..Len(name) : IsDigit(name[i])
    /\ Len(name) > 1 => name[1] # "0"

IndexOf(name) == ParseNumber(name, 1, 0).val.v

RECURSIVE AscendingIndexKeys(_)
AscendingIndexKeys(S) ==
    IF S = {} THEN <<>>
    ELSE LET m == CHOOSE x \in S : \A y \in S : IndexOf(x) <= IndexOf(y)
         IN <<m>> \o AscendingIndexKeys(S \ {m})

\* the own property names of an object whose properties were created in the
\* order of names
OwnKeys(names) ==
    AscendingIndexKeys({names[i] : i \in {j \in 1..Len(names) : IsIndexKey(names[j])}})
        \o SelectSeq(names, LAMBDA n : ~IsIndexKey(n))

\* params[key]
ValueOf(params, name) == params[CHOOSE i \in 1..Len(params) : params[i][1] = name][2]

\* the reduce of generateKey: acc[key] = params[key] for the sorted keys
SortedParams(params) ==
    LET keys == OwnKeys(SortKeys(OwnKeys([i \in 1..Len(params) |-> params[i][1]])))
    IN JObj([i \in 1..Len(keys) |-> <<keys[i], ValueOf(params, keys[i])>>])

\* generateKey(type, params)
GenerateKey(type, params) == type \o <<":">> \o Stringify(SortedParams(params))

\* the namespaces, parameter names and parameter values of the calls
Namespaces == {<<"p">>, <<"p", "r">>}
ParamNames == {<<"a">>, <<"a", "b">>, <<"B">>, <<"2">>, <<"1", "0">>}
ParamValues == {JStr(<<"x">>), JNum(1)}
MaxParams == 3

\* params objects: up to MaxParams distinct names, in every insertion order
ParamObjects ==
    UNION {{q \in [1..n -> ParamNames \X ParamValues] :
                \A i, j \in 1..n : i # j => q[i][1] # q[j][1]} : n \in 0..MaxParams}

\* the arguments of the next generateKey call, on a cache that holds an entry
KeyInit ==
    /\ cache = <<[key |-> "A", data |-> JStr(<<>>), size |-> 2, expiresAt |-> 1, createdAt |-> 0]>>
    /\ maxSize = 10
    /\ currentSize = 2
    /\ hitCount = 0
    /\ missCount = 0
    /\ now = 0
    /\ op = [name |-> "set", key |-> "A", ret |-> JBool(TRUE), victims |-> <<>>, path |-> "stored"]
    /\ getCalls = 0
    /\ touched = <<[key |-> "A", size |-> 2]>>
    /\ pin \in [type : Namespaces, params : ParamObjects]
    /\ pout = NoResult

\* a call of generateKey(type, params)
CallGenerateKey ==
    /\ pout = NoResult
    /\ pout' = [fn |-> "generateKey", val |-> GenerateKey(pin.type, pin.params)]
    /\ UNCHANGED <<pin, cacheOnlyVars, now, bundleVars, compressVars, flowVars>>

----------------------------------------------------------------------------
(* The Lambda handler (index.js) in front of ApiRouter.handle, with the    *)
(* singleton cache; one invocation at a time                               *)

ApiPrefix == <<"/", "a", "p", "i", "/">>
TeamsPath == ApiPrefix \o <<"t", "e", "a", "m", "s">>
ReviewDataPath == ApiPrefix \o <<"r", "e", "v", "i", "e", "w", "-", "d", "a", "t", "a">>
BatchPath == ApiPrefix \o <<"b", "a", "t", "c", "h">>
UnknownApiPath == ApiPrefix \o <<"x">>
RunPythonPath == <<"/", "r", "u", "n", "-", "p", "y", "t", "h", "o", "n">>
UpdateTeamsPath == <<"/", "u", "p", "d", "a", "t", "e", "-", "t", "e", "a", "m", "s">>
RootPath == <<"/">>
Paths == {TeamsPath, ReviewDataPath, BatchPath, UnknownApiPath, RunPythonPath,
          UpdateTeamsPath, RootPath}
Methods == {"GET", "POST", "OPTIONS"}

\* String.prototype.startsWith
StartsWith(str, prefix) ==
    Len(str) >= Len(prefix) /\ SubSeq(str, 1, Len(prefix)) = prefix

\* the paths the handler passes to apiRouter.handle
IsApiRoute(path) ==
    StartsWith(path, ApiPrefix) \/ path = RunPythonPath \/ path = UpdateTeamsPath

\* cache.generateKey(requestPath, queryStringParameters || {}) of a request
\* without query string
RequestKey(path) == GenerateKey(path, <<>>)

\* one clock tick is five minutes: the TTL of the handler (300000 ms), and
\* the TTLs batchOperation uses (300000 and 600000 ms)
Ttl5min == 1
Ttl10min == 2
\* the clock of the Lambda specification runs up to MaxLamTime
MaxLamTime == 2
\* capacity of the cache under the handler: the bodies of /api/teams and
\* /api/review-data fit together, two bodies of /api/teams do not
LamCapacity == 21
\* get calls the handler and the router make in all
MaxLamGets == 2
\* successful writes (POST /run-python, POST /update-teams) in all
MaxUpdates == 1

\* response bodies; the data behind a route is abstracted to its version
StrTeams == <<"t", "e", "a", "m", "s">>
StrData == <<"d", "a", "t", "a">>
StrError == <<"e", "r", "r", "o", "r">>
StrMessage == <<"m", "e", "s", "s", "a", "g", "e">>
TeamsBody(s) == JObj(<<<<StrTeams, JNum(s.teams)>>>>)
ReviewDataBody(s) == JObj(<<<<StrData, JNum(s.prs)>>>>)
ErrorBody == JObj(<<<<StrError, JStr(<<"f">>)>>>>)
UpdatedBody == JObj(<<<<StrMessage, JStr(<<"u">>)>>>>)

\* the operations of a batch request: an element of the operations array is
\* an object with a type and optional params, or null
StrTeamInfo == <<"t", "e", "a", "m", "-", "i", "n", "f", "o">>
StrTeamName == <<"t", "e", "a", "m", "N", "a", "m", "e">>
StrUnknown == <<"z">>
BatchTypes == {StrTeams, StrTeamInfo, StrUnknown}
TeamInfoOp(name) == [null |-> FALSE, type |-> StrTeamInfo,
                     params |-> <<<<StrTeamName, JStr(name)>>>>]
NullOp == [null |-> TRUE, type |-> <<>>, params |-> <<>>]
Operations ==
    {[null |-> FALSE, type |-> StrTeams, params |-> <<>>],
     TeamInfoOp(<<"x">>), TeamInfoOp(<<"y">>),
     [null |-> FALSE, type |-> StrTeamInfo, params |-> <<>>],
     [null |-> FALSE, type |-> StrUnknown, params |-> <<>>],
     NullOp}
\* the batches: every single operation, and the pairs in which operations
\* wait for their data together
Batches ==
    {<<o>> : o \in Operations} \cup
    {<<o1, o2>> : o1 \in {o \in Operations : ~o.null /\ o.params # <<>>},
                 o2 \in {o \in Operations : o.null \/ o.type # StrUnknown}}
MaxOps == 2
\* request bodies after JSON.parse: none, an object with fromDate and toDate,
\* and batches of up to MaxOps operations
NoBody == [kind |-> "none", ops |-> <<>>]
DatesBody == [kind |-> "dates", ops |-> <<>>]
Bodies == {NoBody, DatesBody} \cup
          {[kind |-> "batch", ops |-> ops] : ops \in Batches}

\* the requests: every method on every path without body, the POST of
\* /run-python with its dates, and the POST of /api/batch with every batch
Requests ==
    (Methods \X Paths \X {NoBody})
        \cup {<<"POST", RunPythonPath, DatesBody>>}
        \cup {<<"POST", BatchPath, b>> : b \in {c \in Bodies : c.kind = "batch"}}

NoEntries == [t \in BatchTypes |-> NoValue]
IdleLam == [pc |-> "idle", method |-> "", path |-> <<>>, kind |-> "", ops |-> <<>>,
            entered |-> 0,
            pending |-> {}, results |-> NoEntries, errors |-> NoEntries,
            order |-> <<>>, rejected |-> FALSE,
            status |-> 0, xcache |-> "", body |-> NoValue, routed |-> FALSE]

FlowInit ==
    /\ flow = [f \in Flows |-> IdleFlow]
    /\ lam = IdleLam
    /\ store = [teams |-> 0, prs |-> 0]

\* the handler's return value for the invocation in lam; of the locals only
\* those of operations still running are kept
Response(l, status, xcache, body) ==
    [(IF l.pending = {} THEN IdleLam ELSE l)
        EXCEPT !.pc = "done", !.method = l.method, !.path = l.path, !.routed = l.routed,
               !.status = status, !.xcache = xcache, !.body = body]

\* if (cachedResponse)
Truthy(x) == ~Falsy(x)

\* a handler that stores the body of every successful response
StoresResponseAnyMethod(method, status) == status = 200

\* if (httpMethod === 'GET' && response.statusCode === 200)
StoresResponse(method, status) == method = "GET" /\ status = 200

\* exports.handler up to its first await: the OPTIONS reply, the cache lookup
\* of a GET under /api/ and its HIT reply, or the call of a router
LambdaInvoke(method, path, body) ==
    /\ lam.pc \in {"idle", "done"}
    /\ lam.pending = {}
    /\ LET l == [IdleLam EXCEPT !.method = method, !.path = path,
                                !.kind = body.kind, !.ops = body.ops]
           routed == [l EXCEPT !.pc = IF IsApiRoute(path) THEN "router" ELSE "static",
                               !.routed = TRUE]
       IN IF method = "OPTIONS"
          THEN /\ lam' = Response(l, 200, "", JStr(<<>>))
               /\ UNCHANGED <<cacheOnlyVars, now>>
          ELSE IF method = "GET" /\ StartsWith(path, ApiPrefix)
          THEN /\ GetWithin(RequestKey(path), MaxLamGets)
               /\ lam' = IF Truthy(op'.ret)
                         THEN Response(l, 200, "HIT", op'.ret)
                         ELSE routed
          ELSE /\ lam' = routed
               /\ UNCHANGED <<cacheOnlyVars, now>>
    /\ UNCHANGED <<flow, store, bundleVars, compressVars, pureVars>>

\* the rest of the handler once the router has answered: the store of a
\* successful GET and the MISS reply; an exception of set() gives the 500 of
\* the handler's catch block
Settle(status, body) ==
    IF StoresResponse(lam.method, status)
    THEN /\ Set(RequestKey(lam.path), body, Ttl5min)
         /\ lam' = IF op'.path = "threw"
                   THEN Response(lam, 500, "", ErrorBody)
                   ELSE Response(lam, status, "MISS", body)
    ELSE /\ lam' = Response(lam, status, "MISS", body)
         /\ UNCHANGED <<cacheOnlyVars, now>>

\* ApiRouter.handle: getTeams() and getReviewData(), for every method; a
\* failure of the stored-data read is caught and answered with 500
RouteRead(ok) ==
    /\ lam.pc = "router"
    /\ lam.path \in {TeamsPath, ReviewDataPath}
    /\ Settle(IF ok THEN 200 ELSE 500,
              IF ~ok THEN ErrorBody
              ELSE IF lam.path = TeamsPath THEN TeamsBody(store) ELSE ReviewDataBody(store))
    /\ UNCHANGED <<flow, store, bundleVars, compressVars, pureVars>>

\* the status of a request ApiRouter.handle refuses, 0 for the others:
\* unknown path, method other than POST on a POST route, missing arguments
RefusalStatus(method, path, kind) ==
    IF path \in {TeamsPath, ReviewDataPath} THEN 0
    ELSE IF path \notin {RunPythonPath, UpdateTeamsPath, BatchPath} THEN 404
    ELSE IF method # "POST" THEN 405
    ELSE IF path = RunPythonPath /\ kind # "dates" THEN 400
    ELSE IF path = BatchPath /\ kind # "batch" THEN 400
    ELSE 0

\* ApiRouter.handle: the 404, 405 and 400 answers
RouteRefuse ==
    /\ lam.pc = "router"
    /\ RefusalStatus(lam.method, lam.path, lam.kind) # 0
    /\ Settle(RefusalStatus(lam.method, lam.path, lam.kind), ErrorBody)
    /\ UNCHANGED <<flow, store, bundleVars, compressVars, pureVars>>

\* ApiRouter.handle: runPythonScript(body) and updateTeams(); a successful
\* update replaces the stored data
RouteWrite(success) ==
    /\ lam.pc = "router"
    /\ lam.path \in {RunPythonPath, UpdateTeamsPath}
    /\ RefusalStatus(lam.method, lam.path, lam.kind) = 0
    /\ success => store.teams + store.prs < MaxUpdates
    /\ store' = IF ~success THEN store
                ELSE IF lam.path = UpdateTeamsPath
                     THEN [store EXCEPT !.teams = @ + 1]
                     ELSE [store EXCEPT !.prs = @ + 1]
    /\ Settle(IF success THEN 200 ELSE 500, IF success THEN UpdatedBody ELSE ErrorBody)
    /\ UNCHANGED <<flow, bundleVars, compressVars, pureVars>>

\* staticRouter.handle for the other paths; the cache is not consulted
StaticRespond(status) ==
    /\ lam.pc = "static"
    /\ lam' = Response(lam, status, "", NoValue)
    /\ UNCHANGED <<cacheOnlyVars, now, flow, store, bundleVars, compressVars, pureVars>>

\* cache.generateKey(`batch:${type}`, params || {})
BatchKey(o) == GenerateKey(<<"b", "a", "t", "c", "h", ":">> \o o.type, o.params)

\* params && params.teamName
HasTeamName(o) ==
    \E i \in 1..Len(o.params) : o.params[i][1] = StrTeamName /\ Truthy(o.params[i][2])

\* a message of errors[type]
Message == JStr(<<"m">>)

\* batchOperation: the body of operations.map for the next operation, up to
\* its first await. Destructuring a null operation throws, and so does
\* errors[op.type] in the catch block: the promise of the operation rejects.
BatchOpEnter ==
    /\ lam.pc = "router"
    /\ lam.path = BatchPath
    /\ RefusalStatus(lam.method, lam.path, lam.kind) = 0
    /\ lam.entered < Len(lam.ops)
    /\ LET i == lam.entered + 1
           o == lam.ops[i]
           l == [lam EXCEPT !.entered = i]
       IN IF o.null
          THEN /\ lam' = [l EXCEPT !.rejected = TRUE]
               /\ UNCHANGED <<cacheOnlyVars, now>>
          ELSE /\ GetWithin(BatchKey(o), MaxLamGets)
               /\ lam' = IF Truthy(op'.ret)
                         THEN [l EXCEPT !.results[o.type] = op'.ret,
                                        !.order = Append(@, i)]
                         ELSE IF o.type = StrTeams \/ (o.type = StrTeamInfo /\ HasTeamName(o))
                         THEN [l EXCEPT !.pending = @ \cup {i}]
                         ELSE [l EXCEPT !.errors[o.type] = Message,
                                        !.order = Append(@, i)]
    /\ UNCHANGED <<flow, store, bundleVars, compressVars, pureVars>>

\* what the awaited call of an operation resolves with: the body getTeams()
\* returns, also when it failed, or the team getTeamInfo() fetched
OpValue(o, ok) ==
    IF o.type = StrTeams
    THEN (IF ok THEN TeamsBody(store) ELSE ErrorBody)
    ELSE o.params[1][2]

\* the awaited call of an operation throws: only githubService calls do,
\* getTeams() catches its errors
OpThrows(o, ok) == o.type # StrTeams /\ ~ok

\* batchOperation: an awaited call settles and the operation finishes:
\* results[type] = value and cache.set(cacheKey, value, 600000), or
\* errors[type] = error.message. It also runs when Promise.all has rejected
\* and the handler has answered.
BatchOpResume(i, ok) ==
    /\ i \in lam.pending
    /\ LET o == lam.ops[i]
           l == [lam EXCEPT !.pending = @ \ {i}, !.order = Append(@, i)]
       IN IF OpThrows(o, ok)
          THEN /\ lam' = [l EXCEPT !.errors[o.type] = Message]
               /\ UNCHANGED <<cacheOnlyVars, now>>
          ELSE /\ Set(BatchKey(o), OpValue(o, ok), Ttl10min)
               /\ lam' = IF op'.path = "threw"
                         THEN [l EXCEPT !.results[o.type] = OpValue(o, ok),
                                        !.errors[o.type] = Message]
                         ELSE [l EXCEPT !.results[o.type] = OpValue(o, ok)]
    /\ UNCHANGED <<flow, store, bundleVars, compressVars, pureVars>>

\* batchOperation: await Promise.all(...) settles: rejected as soon as one
\* operation's promise rejected (500), fulfilled when all have finished
\* (200); the handler replies with the router's answer, a POST is not stored.
\* The body of the 200 answer is the pair lam.results, lam.errors.
BatchReturn ==
    /\ lam.pc = "router"
    /\ lam.path = BatchPath
    /\ RefusalStatus(lam.method, lam.path, lam.kind) = 0
    /\ lam.entered = Len(lam.ops)
    /\ lam.rejected \/ lam.pending = {}
    /\ lam' = IF lam.rejected
              THEN Response(lam, 500, "MISS", ErrorBody)
              ELSE Response(lam, 200, "MISS", NoValue)
    /\ UNCHANGED <<cacheOnlyVars, now, flow, store, bundleVars, compressVars, pureVars>>

\* the clock under the callers of the cache
FlowTick ==
    /\ now < MaxLamTime
    /\ now' = now + 1
    /\ UNCHANGED <<cacheOnlyVars, flowVars, bundleVars, compressVars, pureVars>>

----------------------------------------------------------------------------
(* DataCompressor.compressLargeFields / decompressLargeFields, and the     *)
(* team item DynamoDBService.saveTeamData writes and getTeamData reads     *)

StrCompressedMark == <<"_", "_", "c", "o", "m", "p", "r", "e", "s", "s", "e", "d">>
StrHasCompressedFields == <<"_", "_", "h", "a", "s", "C", "o", "m", "p", "r", "e", "s", "s", "e", "d",
                            "F", "i", "e", "l", "d", "s">>
StrCompressed == <<"c", "o", "m", "p", "r", "e", "s", "s", "e", "d">>
StrOriginalSize == <<"o", "r", "i", "g", "i", "n", "a", "l", "S", "i", "z", "e">>
StrCompressedSize == <<"c", "o", "m", "p", "r", "e", "s", "s", "e", "d", "S", "i", "z", "e">>

\* own properties of an object
HasField(obj, name) == obj.t = "obj" /\ \E i \in 1..Len(obj.v) : obj.v[i][1] = name
\* obj[name]
FieldOf(obj, name) ==
    IF HasField(obj, name)
    THEN obj.v[CHOOSE i \in 1..Len(obj.v) : obj.v[i][1] = name][2]
    ELSE JUndefined
\* obj[name] = value: an existing property keeps its place, a new one is last
SetField(obj, name, value) ==
    IF HasField(obj, name)
    THEN JObj([i \in 1..Len(obj.v) |-> IF obj.v[i][1] = name THEN <<name, value>> ELSE obj.v[i]])
    ELSE JObj(Append(obj.v, <<name, value>>))
\* delete obj[name]
DeleteField(obj, name) == JObj(SelectSeq(obj.v, LAMBDA m : m[1] # name))
\* { ...data }: the elements of an array become properties named by their index
Spread(data) ==
    IF data.t = "arr"
    THEN JObj([i \in 1..Len(data.v) |-> <<Digits(i - 1), data.v[i]>>])
    ELSE data

\* the length of the gzip output for an input of n bytes
GzipSize(n, good) == IF good THEN n \div 4 + 18 ELSE n + 18

\* compress(fieldData, true): the forced call never takes the size or ratio
\* exits
CompressForced(data, good) ==
    IF Falsy(data)
    THEN [NoEnvelope EXCEPT !.data = JNull]
    ELSE LET jsonString == Stringify(data)
             originalSize == ByteLength(jsonString)
         IN [compressed |-> TRUE, data |-> ToBase64(Gzip(jsonString)),
             originalSize |-> originalSize,
             compressedSize |-> GzipSize(originalSize, good),
             ratioOne |-> FALSE, gz |-> GzipSize(originalSize, good)]

\* { __compressed: true, ...compressed }; compressionRatio and
\* compressionTimestamp are never read back and are left out
MarkedEnvelope(e) ==
    JObj(<< <<StrCompressedMark, JBool(TRUE)>>,
            <<StrCompressed, JBool(e.compressed)>>,
            <<StrData, e.data>>,
            <<StrOriginalSize, JNum(e.originalSize)>>,
            <<StrCompressedSize, JNum(e.compressedSize)>> >>)

\* the envelope decompress() sees in a stored field
EnvelopeOf(o) ==
    [NoEnvelope EXCEPT !.compressed = Truthy(FieldOf(o, StrCompressed)),
                       !.data = FieldOf(o, StrData)]

\* if (fieldSize > this.minCompressionSize)
LargeField(fieldSize) == fieldSize > minCompressionSize

RECURSIVE CompressFields(_, _, _, _)
\* the loop of compressLargeFields over fieldsToCompress; acc holds
\* compressedData, hasCompressedFields and the envelopes compress() returned
CompressFields(data, acc, fields, good) ==
    IF fields = <<>> THEN acc
    ELSE LET fieldData == FieldOf(data, fields[1])
             e == CompressForced(fieldData, good)
         IN IF /\ Truthy(fieldData) /\ TypeofObject(fieldData)
               /\ LargeField(ByteLength(Stringify(fieldData)))
               /\ e.compressed
            THEN CompressFields(data,
                                [obj |-> SetField(acc.obj, fields[1], MarkedEnvelope(e)),
                                 has |-> TRUE,
                                 envelopes |-> Append(acc.envelopes, e)],
                                Tail(fields), good)
            ELSE CompressFields(data, acc, Tail(fields), good)

\* compressLargeFields(data, fieldsToCompress): the value returned and the
\* envelopes of the fields it compressed
CompressLargeFields(data, fields, good) ==
    IF Falsy(data) \/ ~TypeofObject(data)
    THEN [val |-> data, envelopes |-> <<>>]
    ELSE LET r == CompressFields(Spread(data),
                                 [obj |-> Spread(data), has |-> FALSE, envelopes |-> <<>>],
                                 fields, good)
         IN [val |-> SetField(r.obj, StrHasCompressedFields, JBool(r.has)),
             envelopes |-> r.envelopes]

RECURSIVE DecompressFields(_, _, _)
\* the loop of decompressLargeFields over fieldsToDecompress; acc holds
\* decompressedData, the number of fields decompress() counted, and whether
\* decompress() threw
DecompressFields(data, acc, fields) ==
    IF fields = <<>> \/ acc.threw THEN acc
    ELSE LET fieldData == FieldOf(data, fields[1])
             r == DecompressResult(EnvelopeOf(fieldData))
         IN IF Truthy(fieldData) /\ Truthy(FieldOf(fieldData, StrCompressedMark))
            THEN DecompressFields(data,
                                  [obj |-> IF r.ok THEN SetField(acc.obj, fields[1], r.val)
                                           ELSE acc.obj,
                                   counted |-> acc.counted + (IF r.counted THEN 1 ELSE 0),
                                   threw |-> ~r.ok],
                                  Tail(fields))
            ELSE DecompressFields(data, acc, Tail(fields))

\* decompressLargeFields(data, fieldsToDecompress): the value returned (data
\* itself when decompress() threw) and the number of fields counted
DecompressLargeFields(data, fields) ==
    IF \/ Falsy(data) \/ ~TypeofObject(data)
       \/ Falsy(FieldOf(Spread(data), StrHasCompressedFields))
    THEN [val |-> data, counted |-> 0]
    ELSE LET r == DecompressFields(Spread(data),
                                   [obj |-> DeleteField(Spread(data), StrHasCompressedFields),
                                    counted |-> 0, threw |-> FALSE],
                                   fields)
         IN [val |-> IF r.threw THEN data ELSE r.obj, counted |-> r.counted]

RECURSIVE SumOf(_, _)
SumOf(es, field) == IF es = <<>> THEN 0 ELSE es[1][field] + SumOf(Tail(es), field)

\* this.stats after the compress() calls that returned the envelopes es
StatsAfterCompress(st, es) ==
    [st EXCEPT !.compressed = @ + Len(es),
               !.totalOriginalSize = @ + SumOf(es, "originalSize"),
               !.totalCompressedSize = @ + SumOf(es, "compressedSize")]

\* the item saveTeamData() hands to compressLargeFields: PK, SK, teams,
\* updated_at, ttl
StrPK == <<"P", "K">>
StrSK == <<"S", "K">>
StrUpdatedAt == <<"u", "p", "d", "a", "t", "e", "d", "_", "a", "t">>
StrTtl == <<"t", "t", "l">>
TeamItem(teamData) ==
    JObj(<< <<StrPK, JStr(<<"T", "E", "A", "M", "_", "D", "A", "T", "A">>)>>,
            <<StrSK, JStr(<<"A", "L", "L", "_", "T", "E", "A", "M", "S">>)>>,
            <<StrTeams, teamData>>,
            <<StrUpdatedAt, JStr(<<"0">>)>>,
            <<StrTtl, JNum(1)>> >>)

\* saveTeamData(teamData): the item put under TEAM_DATA / ALL_TEAMS (the items
\* per team and per member are other keys of the table)
SaveTeamData(teamData, good) == CompressLargeFields(TeamItem(teamData), <<StrTeams>>, good)

\* getTeamData() on the item the table holds
ReadTeamData(item) == GetTeamData(FieldOf(item, StrTeams))

\* team data: no team, a team, and teams whose serialized size is 1024, 1025
\* and about 1100 bytes
StrD == <<"d">>
Team(n) == JObj(<< <<StrD, JStr(Chars(n))>> >>)
TeamDataValues == {JObj(<<>>), Team(1), Team(1016), Team(1017), Team(1100)}

\* the objects handed to compressLargeFields: items with a teams field of
\* every size, with a large string and a large array beside it, values
\* that are not objects, and an array
StrN == <<"n">>
StrS == <<"s">>
StrL == <<"l">>
FieldObjects ==
    {JObj(<< <<StrTeams, t>> >>) : t \in TeamDataValues}
        \cup {JObj(<< <<StrN, JNum(1)>>, <<StrTeams, t>>, <<StrL, JArr(<<JStr(Chars(1100))>>)>> >>) :
                t \in {Team(1), Team(1100)}}
        \cup {JObj(<< <<StrTeams, JStr(Chars(1100))>>, <<StrS, JNull>> >>),
              JObj(<<>>), JNull, JStr(<<"a">>), JArr(<<Team(1100)>>)}
FieldLists == {<<>>, <<StrTeams>>, <<StrL, StrTeams>>, <<StrS, StrN>>, <<<<"0">>>>}

\* the arguments of the next calls
FieldsInit ==
    /\ pin \in [obj : FieldObjects, fields : FieldLists]
    /\ pout = NoResult

\* a call of compressLargeFields(obj, fields)
CallCompressLargeFields ==
    /\ pout = NoResult
    /\ \E good \in BOOLEAN :
          LET r == CompressLargeFields(pin.obj, pin.fields, good)
          IN /\ pout' = [fn |-> "compressLargeFields", val |-> r.val]
             /\ stats' = StatsAfterCompress(stats, r.envelopes)
    /\ UNCHANGED <<pin, cdata, cforce, cenv, cout, cstage, ccalls>>
    /\ UNCHANGED <<cacheOnlyVars, now, bundleVars, flowVars>>

\* a call of decompressLargeFields on what compressLargeFields returned
CallDecompressLargeFields ==
    /\ pout.fn = "compressLargeFields"
    /\ LET r == DecompressLargeFields(pout.val, pin.fields)
       IN /\ pout' = [fn |-> "decompressLargeFields", val |-> r.val]
          /\ stats' = [stats EXCEPT !.decompressed = @ + r.counted]
    /\ UNCHANGED <<pin, cdata, cforce, cenv, cout, cstage, ccalls>>
    /\ UNCHANGED <<cacheOnlyVars, now, bundleVars, flowVars>>

\* saveTeamData(teamData) with the teams field of obj as team data
CallSaveTeamData ==
    /\ pout = NoResult
    /\ FieldOf(pin.obj, StrTeams).t = "obj"
    /\ \E good \in BOOLEAN :
          LET r == SaveTeamData(FieldOf(pin.obj, StrTeams), good)
          IN /\ pout' = [fn |-> "saveTeamData", val |-> r.val]
             /\ stats' = StatsAfterCompress(stats, r.envelopes)
    /\ UNCHANGED <<pin, cdata, cforce, cenv, cout, cstage, ccalls>>
    /\ UNCHANGED <<cacheOnlyVars, now, bundleVars, flowVars>>

\* getTeamData() after saveTeamData
CallGetTeamData ==
    /\ pout.fn = "saveTeamData"
    /\ pout' = [fn |-> "getTeamData", val |-> ReadTeamData(pout.val)]
    /\ UNCHANGED <<pin, cacheOnlyVars, now, bundleVars, compressVars, flowVars>>

----------------------------------------------------------------------------
\* no pure function has been called
PureInit == pin = <<>> /\ pout = <<>>

----------------------------------------------------------------------------
(* Specifications                                                          *)

Init == CacheInit /\ BundleInit /\ CompressInit /\ PureInit /\ FlowInit

Next ==
    \/ DoSet
    \/ DoGet
    \/ DoDelete
    \/ DoDeletePattern
    \/ DoEvictExpired
    \/ DoClear
    \/ Tick

Spec == Init /\ [][Next]_vars

InitBundle == CacheInit /\ maxSize = 10 /\ BundleInit /\ CompressInit /\ PureInit /\ FlowInit

DoBundleStart == \E c \in Callers : BundleStart(c)
DoBundleStat == \E c \in Callers : BundleStat(c)
DoBundleReadHtml == \E c \in Callers : BundleReadHtml(c)
DoBundleReadCss == \E c \in Callers : BundleReadCss(c)
DoBundleReadJs == \E c \in Callers : BundleReadJs(c)
DoBundleReadImg == \E c \in Callers : BundleReadImg(c)
DoBundleStore == \E c \in Callers : BundleStore(c)
DoModifyFile == \E f \in FileNames : ModifyFile(f)

NextBundle ==
    \/ DoBundleStart
    \/ DoBundleStat
    \/ DoBundleReadHtml
    \/ DoBundleReadCss
    \/ DoBundleReadJs
    \/ DoBundleReadImg
    \/ DoBundleStore
    \/ ClearCache
    \/ DoModifyFile
    \/ BundleTick

SpecBundle == InitBundle /\ [][NextBundle]_vars

DoSetFileStatus == \E f \in FileNames, st \in Statuses : SetFileStatus(f, st)

\* one request after another through the router, while files come and go
NextStatic ==
    \/ RouterHandle
    \/ RouterBundleSettled
    \/ RouterStatsBundle
    \/ RouterRespond
    \/ RouterFallbackStat
    \/ RouterFallbackRead
    \/ DoBundleStat
    \/ DoBundleReadHtml
    \/ DoBundleReadCss
    \/ DoBundleReadJs
    \/ DoBundleReadImg
    \/ DoBundleStore
    \/ DoSetFileStatus
    \/ BundleTick

SpecStatic == InitBundle /\ [][NextStatic]_vars

InitCompress ==
    /\ CacheInit /\ maxSize = 10 /\ BundleInit /\ PureInit /\ FlowInit
    /\ stats = NoStats /\ ccalls = 1
    /\ cdata \in Inputs /\ cforce \in BOOLEAN
    /\ cenv = NoEnvelope /\ cout = NoOutput /\ cstage = "input"

NextCompress ==
    \/ Compress
    \/ Decompress
    \/ DecompressCorrupt
    \/ NextRound
    \/ ResetStats

SpecCompress == InitCompress /\ [][NextCompress]_vars

InitProcessor ==
    /\ CacheInit /\ maxSize = 10 /\ BundleInit /\ CompressInit /\ FlowInit
    /\ ProcessorInit

NextProcessor ==
    \/ CallFilterBotAccounts
    \/ CallFilterNonMembers
    \/ CallGetReviewData

SpecProcessor == InitProcessor /\ [][NextProcessor]_vars

InitKey == KeyInit /\ BundleInit /\ CompressInit /\ FlowInit

NextKey == CallGenerateKey

SpecKey == InitKey /\ [][NextKey]_vars

\* overlapping cached() calls on a cache of capacity 10
InitFlows == CacheInit /\ maxSize = 10 /\ BundleInit /\ CompressInit /\ PureInit /\ FlowInit

DoCachedEnter == \E f \in Flows, k \in FlowKeys, ttl \in TTLs : CachedEnter(f, k, ttl)
DoCachedResume == \E f \in Flows, result \in ProducerResults : CachedResume(f, result)
DoCachedReject == \E f \in Flows : CachedReject(f)

NextFlows ==
    \/ DoCachedEnter
    \/ DoCachedResume
    \/ DoCachedReject
    \/ FlowTick

SpecFlows == InitFlows /\ [][NextFlows]_vars

\* Lambda invocations, one after the other, on a cache of capacity LamCapacity
InitLambda ==
    /\ cache = <<>> /\ maxSize = LamCapacity /\ currentSize = 0
    /\ hitCount = 0 /\ missCount = 0 /\ now = 0
    /\ op = NoOp /\ getCalls = 0 /\ touched = <<>>
    /\ BundleInit /\ CompressInit /\ PureInit /\ FlowInit

DoLambdaInvoke == \E r \in Requests : LambdaInvoke(r[1], r[2], r[3])
DoRouteRead == \E ok \in BOOLEAN : RouteRead(ok)
DoRouteWrite == \E success \in BOOLEAN : RouteWrite(success)
DoStaticRespond == \E status \in {200, 404} : StaticRespond(status)
DoBatchOpResume == \E i \in 1..MaxOps, ok \in BOOLEAN : BatchOpResume(i, ok)

NextLambda ==
    \/ DoLambdaInvoke
    \/ DoRouteRead
    \/ RouteRefuse
    \/ DoRouteWrite
    \/ DoStaticRespond
    \/ BatchOpEnter
    \/ DoBatchOpResume
    \/ BatchReturn
    \/ FlowTick

SpecLambda == InitLambda /\ [][NextLambda]_vars

\* calls of compressLargeFields/decompressLargeFields and of
\* saveTeamData/getTeamData
InitFields ==
    /\ CacheInit /\ maxSize = 10 /\ BundleInit /\ CompressInit /\ FlowInit
    /\ FieldsInit

NextFields ==
    \/ CallCompressLargeFields
    \/ CallDecompressLargeFields
    \/ CallSaveTeamData
    \/ CallGetTeamData

SpecFields == InitFields /\ [][NextFields]_vars

----------------------------------------------------------------------------
(* Claims about the DataCompressor                                         *)

\* C5: for all JSON-serializable data, including the falsy values 0, false
\* and "", decompress(compress(data, true)) deep-equals data.
CompressRoundTrip ==
    (cstage = "decompressed" /\ cforce) => (cout.ok /\ cout.val = cdata)

\* C6: for every data whose serialized size is below 1024 bytes,
\* compress(data, false) returns compressed:false with the data unchanged.
SmallDataReturnedUnchanged ==
    (cstage # "input" /\ ~cforce /\ ByteLength(Stringify(cdata)) < minCompressionSize)
        => (cenv.compressed = FALSE /\ cenv.data = cdata)

\* an object or an array
Structured(x) == x.t \in {"obj", "arr"}

\* the data whose compressed form the envelope e carries, if there is one
PayloadsOf(e) == {x \in Inputs : e.data = ToBase64(Gzip(Stringify(x)))}

\* C15: decompress returns envelope.data when the flag is false; with the flag
\* true it returns the original payload when the data decodes, and when
\* decoding, gunzip or JSON parsing fails it returns envelope.data if that is a
\* structured object and throws otherwise; it returns nothing else.
DecompressFallback ==
    (cstage \in {"decompressed", "recovered"}) =>
        LET e == cout.arg
        IN IF ~e.compressed THEN cout.ok /\ cout.val = e.data
           ELSE IF PayloadsOf(e) # {} THEN cout.ok /\ cout.val \in PayloadsOf(e)
           ELSE IF Structured(e.data) THEN cout.ok /\ cout.val = e.data
           ELSE ~cout.ok

\* C16: every call of compress that ends compressed, skipped below the size
\* threshold or given up for a poor ratio adds its original size and the size
\* it returns to the totals getStats reports, and resetStats puts the
\* statistics back to zero.
CompressAlwaysCounted ==
    [][/\ (cstage = "input" /\ cstage' = "compressed" /\ cenv'.originalSize # NoSize)
            => /\ GetStats(stats').totalOriginalSize
                     = GetStats(stats).totalOriginalSize + cenv'.originalSize
               /\ GetStats(stats').totalCompressedSize
                     = GetStats(stats).totalCompressedSize + cenv'.compressedSize
       /\ (cstage' = cstage /\ stats' # stats) => GetStats(stats') = GetStats(NoStats)
      ]_vars

\* C17: compress returns compressed:true exactly when forceCompress is true, or
\* the serialized size is at least 1024 bytes and original size / gzip size is
\* at least 1.2; otherwise it returns the data it was given with
\* compressed:false and compressedSize = originalSize.
CompressedExactlyWhen ==
    (cstage # "input") =>
        LET size == ByteLength(Stringify(cdata))
        IN /\ cenv.compressed <=>
                  \/ cforce
                  \/ /\ size >= minCompressionSize
                     /\ cenv.gz # NoSize
                     /\ 10 * size >= 12 * cenv.gz
           /\ ~cenv.compressed =>
                  /\ cenv.data = cdata
                  /\ cenv.originalSize = size
                  /\ cenv.compressedSize = cenv.originalSize

----------------------------------------------------------------------------
(* Claims about the HtmlBundler                                            *)

\* C7: a createBundle() call that starts with a memoized bundle, with no
\* source file changed since that bundle was stored and none changed during
\* the call, returns that bundle byte for byte and reads no file.
BundleIdempotent ==
    \A c \in Callers :
        (call[c].pc = "idle" /\ call[c].expect # <<>>)
            => (call[c].ret = call[c].expect /\ call[c].reads = 0)

\* C7 witness: after a file was rewritten and the bundle regenerated, a later
\* call has returned the memoized bundle
BundleIdempotentWitness ==
    \E c \in Callers :
        /\ call[c].pc = "idle" /\ call[c].expect # <<>> /\ call[c].ret = call[c].expect
        /\ mods > 0
        /\ Sources(call[c].ret[1]) = CurrentSources

\* C8 as stated: when an inlined source file (entry HTML, stylesheet, script
\* or image) was rewritten between the storing of the memoized bundle and the
\* start of a call, the call returns a bundle built from the current files.
\* (The rewrite is taken to carry an mtime later than the bundle's timestamp,
\* the case the timestamp comparison is able to see.)
BundleReflectsSources ==
    \A c \in Callers :
        (call[c].pc = "idle" /\ call[c].stale /\ call[c].fresh /\ call[c].ret # <<>>)
            => Sources(call[c].ret[1]) = CurrentSources

\* C24: a createBundle() call started after the last file modification never
\* returns a memoized bundle whose inlined content differs from the current
\* content of the source files, whatever the interleaving of modifications
\* and bundle generations before it.
MemoizedBundleCurrent ==
    \A c \in Callers :
        (call[c].pc = "idle" /\ call[c].fresh /\ call[c].ret # <<>> /\ call[c].reads = 0)
            => Sources(call[c].ret[1]) = CurrentSources

\* the reference of the entry document a read position of createBundle() is
\* about: position, file, field of the bundle, next position
Refs == {<<"readCss", "styles.css", "css", "readJs">>,
         <<"readJs", "app.js", "js", "readImg">>,
         <<"readImg", "logo.png", "img", "store">>}

\* C13: in createBundle(), a stylesheet, script or image that cannot be read
\* leaves its reference as it is while the call goes on, readable references
\* are inlined and the bundle is stored and returned; the call fails exactly
\* when index.html cannot be read, and a failing call leaves the bundle cache
\* as it was.
BundleDegradesPerFile ==
    [][\A c \in Callers :
        /\ \A r \in Refs :
              (call[c].pc = r[1] /\ call'[c].pc # r[1])
                  => /\ call'[c].pc = r[4] /\ ~call'[c].failed
                     /\ call'[c][r[3]] = IF files[r[2]].status = "ok"
                                          THEN files[r[2]].ver ELSE NoVer
                     /\ \A q \in Refs \ {r} : call'[c][q[3]] = call[c][q[3]]
                     /\ call'[c].html = call[c].html
                     /\ bundledCache' = bundledCache
        /\ (call[c].pc = "readHtml" /\ call'[c].pc # "readHtml")
              => IF files[IndexHtml].status = "ok"
                 THEN ~call'[c].failed /\ call'[c].html = files[IndexHtml].ver
                 ELSE /\ call'[c].failed /\ call'[c].pc = "idle" /\ call'[c].ret = <<>>
                      /\ bundledCache' = bundledCache
        /\ (call'[c].failed /\ ~call[c].failed) => call[c].pc = "readHtml"
        /\ (call[c].pc = "store" /\ call'[c].pc # "store")
              => /\ call'[c].ret # <<>> /\ ~call'[c].failed
                 /\ bundledCache' # <<>> /\ bundledCache'[1].content = call'[c].ret[1]
                 /\ Sources(call'[c].ret[1]) =
                        [html |-> call[c].html, css |-> call[c].css,
                         js |-> call[c].js, img |-> call[c].img]
      ]_vars

\* a stored bundle was returned whose stylesheet reference stayed a reference
\* while its script was inlined
BundleDegradesWitness ==
    \E c \in Callers :
        /\ call[c].pc = "idle" /\ call[c].ret # <<>> /\ call[c].reads > 0
        /\ call[c].ret[1].css = NoVer /\ call[c].ret[1].js # NoVer
        /\ call[c].ret[1].html # NoVer
        /\ bundledCache # <<>> /\ bundledCache[1].content = call[c].ret[1]

----------------------------------------------------------------------------
(* Claims about the StaticRouter                                           *)

\* C14: in bundle mode a rejected createBundle() sends serveBundledHtml() to
\* the unbundled index.html, and handle() always ends in a response: 200 with
\* the bundle, 200 with index.html as it is, 404 when index.html is missing,
\* or 500; no exception leaves handle().
RouterAlwaysResponds ==
    [][/\ req'.pc # "threw"
       /\ (req.pc = "createBundle" /\ req'.pc # "createBundle")
            => IF call[RouterCaller].failed
               THEN req'.pc = "fallbackStat"
               ELSE req'.pc = "getBundleStats" /\ req'.body = call[RouterCaller].ret
       /\ (req'.pc = "done" /\ req.pc # "done")
            => /\ req'.status \in {200, 404, 500}
               /\ req.pc \in {"statsBundle", "fallbackStat", "fallbackRead"}
               /\ req.pc = "statsBundle"
                    => req'.status = 200 /\ req'.bundled /\ req'.body = req.body
                       /\ req.body # <<>>
               /\ req.pc \in {"fallbackStat", "fallbackRead"}
                    => /\ ~req'.bundled
                       /\ req'.status = 200
                            => /\ files[IndexHtml].status = "ok"
                               /\ req'.body = <<[html |-> files[IndexHtml].ver]>>
                       /\ req'.status = 404 => files[IndexHtml].status = "missing"
                       /\ req'.status = 500 => files[IndexHtml].status = "denied"
      ]_vars

\* createBundle() was rejected and the request ended with index.html as it is
RouterFallbackWitness ==
    /\ req.pc = "done" /\ req.status = 200 /\ ~req.bundled
    /\ call[RouterCaller].failed

----------------------------------------------------------------------------
(* Claims about the CacheManager                                           *)

\* the entries retained, as (key, size) pairs in the Map's iteration order
Retained == [i \in 1..Len(cache) |-> [key |-> cache[i].key, size |-> cache[i].size]]

IsSuffix(s, h) == Len(s) <= Len(h) /\ s = SubSeq(h, Len(h) - Len(s) + 1, Len(h))

RECURSIVE MaxFittingSuffix(_, _)
\* the longest run of most recently touched keys whose sizes fit in max
MaxFittingSuffix(h, max) ==
    IF h = <<>> THEN <<>>
    ELSE LET rest == MaxFittingSuffix(Tail(h), max)
         IN IF rest = Tail(h) /\ SumSizes(h) <= max THEN h ELSE rest

\* keys of the cache other than k, by last touch, oldest first
PresentByTouch(k) ==
    KeysOf(SelectSeq(touched, LAMBDA e : e.key # k /\ Has(cache, e.key)))

\* C1: after any sequence of cache operations, currentSize equals the sum of
\* the size fields of the entries currently in the cache.
SizeAccounting == currentSize = SumSizes(cache)

\* C1 witness: a set has evicted an entry and entries remain in the cache
SizeAccountingWitness ==
    op.name = "set" /\ op.victims # <<>> /\ Len(cache) >= 2 /\ currentSize > 0

\* C2 as stated: the entries retained are exactly the longest run of most
\* recently touched entries that fits in the capacity, in recency order.
LRUExactlyMostRecentThatFits == Retained = MaxFittingSuffix(touched, maxSize)

\* C2 as amended: the entries retained are always a run of the most recently
\* touched entries (every retained entry was touched after every evicted
\* one) that fits in the capacity, held least recently touched first; right
\* after a set that evicted, it is the longest such run.
LRURecencySuffix ==
    /\ IsSuffix(Retained, touched)
    /\ SumSizes(cache) <= maxSize
    /\ (op.name = "set" /\ op.victims # <<>>) => Retained = MaxFittingSuffix(touched, maxSize)

\* C2 witness: after an eviction and a later get hit, two entries are retained
\* and an evicted key is still remembered as touched before them
LRURecencySuffixWitness ==
    /\ Len(touched) > Len(cache)
    /\ Len(cache) >= 2
    /\ op.path = "hit"

\* C3: a get(key) performed after the entry's expiresAt has elapsed returns
\* null, removes the entry and stops counting its size.
ExpiredGetMissesAndRemoves ==
    [][\A k \in Keys :
        (op'.name = "get" /\ op'.key = k /\ Get(k) /\ Has(cache, k) /\ Entry(cache, k).expiresAt < now)
            => /\ op'.ret = JNull
               /\ ~Has(cache', k)
               /\ currentSize' = currentSize - Entry(cache, k).size
               /\ SumSizes(cache') = SumSizes(cache) - Entry(cache, k).size
               /\ missCount' = missCount + 1
               /\ hitCount' = hitCount]_vars

\* C3 witness: a get found an expired entry while another entry stays cached
ExpiredGetWitness ==
    op.name = "get" /\ op.path = "expired" /\ ~Has(cache, op.key) /\ Len(cache) >= 1

\* C4: a set whose serialized value is larger than maxSize returns false and
\* changes nothing: entries, their order, currentSize and the counters.
OversizedSetRejected ==
    [][\A k \in Keys, v \in ValuesFor(maxSize), ttl \in TTLs :
        (op'.name = "set" /\ op'.key = k /\ Set(k, v, ttl) /\ ByteLength(Stringify(v)) > maxSize)
            => /\ op'.ret = JBool(FALSE)
               /\ cache' = cache
               /\ currentSize' = currentSize
               /\ hitCount' = hitCount
               /\ missCount' = missCount]_vars

\* C4 witness: an oversized set was refused for a key that is cached
OversizedSetWitness ==
    op.name = "set" /\ op.ret = JBool(FALSE) /\ Has(cache, op.key) /\ Len(cache) >= 2

\* C9: whenever set evicts, the victims are the present entries with the
\* oldest last touch, oldest first; with capacity 1000 and A, B of 400 bytes
\* touched in that order, the set of a 400-byte C evicts exactly A.
EvictsOldestTouched ==
    [][\A k \in Keys, v \in ValuesFor(maxSize), ttl \in TTLs :
        (op'.name = "set" /\ op'.key = k /\ op'.ret = JBool(TRUE) /\ Set(k, v, ttl))
            => /\ op'.victims = SubSeq(PresentByTouch(k), 1, Len(op'.victims))
               /\ (/\ maxSize = 1000
                   /\ k = "C"
                   /\ ByteLength(Stringify(v)) = 400
                   /\ touched = <<[key |-> "A", size |-> 400], [key |-> "B", size |-> 400]>>
                   /\ Len(cache) = 2)
                  => (op'.victims = <<"A">> /\ KeysOf(cache') = <<"B", "C">>)]_vars

\* C9 witness: capacity 1000, C stored after a get hit, A evicted, B and C kept
EvictsOldestWitness ==
    /\ maxSize = 1000
    /\ op.name = "set" /\ op.key = "C" /\ op.victims = <<"A">>
    /\ KeysOf(cache) = <<"B", "C">>
    /\ hitCount = 1

\* C10: every get increments exactly one counter: hitCount, returning the
\* value and making the entry the most recently used, when the key is
\* present and not expired; missCount, returning null, otherwise; so
\* hitCount + missCount is the number of get calls since the last clear.
GetCountsHitOrMiss ==
    [][/\ hitCount' + missCount' = getCalls'
       /\ \A k \in Keys :
            (op'.name = "get" /\ op'.key = k /\ Get(k)) =>
                IF Has(cache, k) /\ Entry(cache, k).expiresAt >= now
                THEN /\ hitCount' = hitCount + 1
                     /\ missCount' = missCount
                     /\ op'.ret = Entry(cache, k).data
                     /\ cache'[Len(cache')] = Entry(cache, k)
                     /\ Len(cache') = Len(cache)
                ELSE /\ missCount' = missCount + 1
                     /\ hitCount' = hitCount
                     /\ op'.ret = JNull]_vars

\* C10 witness: a get hit with another entry cached; the key is now the newest
GetCountsWitness ==
    /\ op.name = "get" /\ op.path = "hit"
    /\ hitCount = 1 /\ missCount = 0 /\ getCalls = 1
    /\ Len(cache) >= 2
    /\ cache[Len(cache)].key = op.key
    /\ touched[Len(touched)].key = op.key

\* C11: a successful set on a key that is already present evicts as if the old
\* entry were gone (the victims are the shortest prefix of the other entries
\* whose removal makes room), leaves exactly one entry for the key, holding the
\* new value, size and expiry in the most-recently-used position, and a get of
\* a present key no later than its expiry returns the stored value.
ReplaceKeepsOneEntry ==
    [][/\ \A k \in Keys : (op'.name = "set" /\ op'.key = k /\ op'.path = "replaced") =>
          \A v \in ValuesFor(maxSize), ttl \in TTLs :
            ~(Has(cache, k) /\ Set(k, v, ttl) /\ ByteLength(Stringify(v)) <= maxSize)
                \/ LET dataSize == ByteLength(Stringify(v))
                       rest == Without(cache, k)
                       n == Len(op'.victims)
                       last == cache'[Len(cache')]
                   IN /\ op'.ret = JBool(TRUE)
                      /\ Cardinality({i \in 1..Len(cache') : cache'[i].key = k}) = 1
                      /\ last.key = k /\ last.data = v /\ last.size = dataSize
                      /\ last.expiresAt = now + ttl
                      /\ n <= Len(rest)
                      /\ op'.victims = KeysOf(SubSeq(rest, 1, n))
                      /\ cache' = Append(SubSeq(rest, n + 1, Len(rest)), last)
                      /\ SumSizes(SubSeq(rest, n + 1, Len(rest))) + dataSize <= maxSize
                      /\ n > 0 => SumSizes(SubSeq(rest, n, Len(rest))) + dataSize > maxSize
       /\ \A k \in Keys : (op'.name = "get" /\ op'.key = k /\ op'.path = "hit") =>
            (~(Has(cache, k) /\ now <= Entry(cache, k).expiresAt /\ Get(k))
                \/ op'.ret = Entry(cache, k).data)
      ]_vars

\* a replacing set has run without evicting while another entry stays stored
\* and the cache is nearly full
ReplaceKeepsOneEntryWitness ==
    /\ op.name = "set" /\ op.path = "replaced" /\ op.victims = <<>>
    /\ Len(cache) = 2
    /\ \E i \in 1..Len(touched) : touched[i].key = op.key
    /\ currentSize > maxSize - 4

\* C12: no CacheManager operation raises an exception, whatever key, value
\* (undefined included) and pattern it is given.
CacheNeverThrows == op.path # "threw"

\* a get(k) at the current time would find the entry and report it expired
ExpiryMiss(k) == Has(cache, k) /\ Entry(cache, k).expiresAt < now

\* C28: evictExpired removes exactly the entries for which a get at the same
\* time would report an expiry miss, returns how many it removed, and leaves
\* the other entries in their order and the hit/miss counters unchanged; get
\* reports an expiry miss exactly when expiresAt is strictly earlier than the
\* current time, so an entry with expiresAt equal to the current time is a hit.
EvictExpiredMatchesGet ==
    [][/\ (op'.name = "evictExpired" /\ EvictExpired) =>
            /\ cache' = SelectSeq(cache, LAMBDA e : ~ExpiryMiss(e.key))
            /\ op'.ret = JNum(Len(cache) - Len(cache'))
            /\ op'.victims = KeysOf(SelectSeq(cache, LAMBDA e : ExpiryMiss(e.key)))
            /\ hitCount' = hitCount
            /\ missCount' = missCount
       /\ \A k \in Keys : (op'.name = "get" /\ op'.key = k /\ Get(k) /\ Has(cache, k)) =>
            /\ (op'.path = "expired") <=> ExpiryMiss(k)
            /\ (Entry(cache, k).expiresAt = now) =>
                    (op'.path = "hit" /\ op'.ret = Entry(cache, k).data /\ Has(cache', k))
      ]_vars

\* evictExpired removed an expired entry and kept two entries that expire at
\* the current time
EvictExpiredMatchesGetWitness ==
    /\ op.name = "evictExpired"
    /\ Len(op.victims) >= 1
    /\ Len(cache) = 2
    /\ \A i \in 1..Len(cache) : cache[i].expiresAt = now

----------------------------------------------------------------------------
(* Claims about the DataProcessor                                          *)

\* the bot-name fragments, in lower case
BotFragments == {<<"b", "o", "t">>, <<"[", "b", "o", "t", "]">>, <<"d", "e", "p", "e", "n", "d", "a", "b", "o", "t">>, <<"g", "i", "t", "h", "u", "b", "-", "a", "c", "t", "i", "o", "n", "s">>, <<"r", "e", "n", "o", "v", "a", "t", "e">>, <<"g", "r", "e", "e", "n", "k", "e", "e", "p", "e", "r">>, <<"c", "o", "d", "e", "c", "o", "v">>, <<"s", "n", "y", "k">>}
HasBotFragment(username) == \E f \in BotFragments : Includes(ToLowerCase(username), f)
NamesOf(data) == {data[i][1] : i \in 1..Len(data)}
Entries(data) == {data[i] : i \in 1..Len(data)}

\* C18: filterNonMembers keeps exactly the users that are team members and not
\* bots when team membership is known, and exactly the non-bot users when
\* there is no team data, also in getReviewData when no team data was ever
\* stored.
NonMembersFiltered ==
    LET names == NamesOf(pin.prData.data)
        nonBots == {u \in names : ~HasBotFragment(u)}
    IN /\ (pout.fn = "filterNonMembers" /\ pin.teamData = NoTeams)
            => NamesOf(pout.val.data) = nonBots
       /\ (pout.fn = "filterNonMembers" /\ pin.teamData # NoTeams /\ pin.teamData.v # <<>>)
            => NamesOf(pout.val.data) = nonBots \cap MemberUsernames(pin.teamData)
       /\ (pout.fn = "getReviewData" /\ pin.teamData = NoTeams)
            => NamesOf(pout.val.body.data) = nonBots

\* C19: filterBotAccounts returns exactly the entries of data whose username
\* contains, case-insensitively, none of the bot-name fragments, with their
\* values as they were, and leaves data as it was; {alice, dependabot[bot]}
\* gives {alice}.
BotsFiltered ==
    [][(pout.fn = "" /\ pout'.fn = "filterBotAccounts") =>
        /\ Entries(pout'.val) = {e \in Entries(pin.prData.data) : ~HasBotFragment(e[1])}
        /\ Len(pout'.val) = Cardinality(Entries(pout'.val))
        /\ pin' = pin
        /\ NamesOf(pin.prData.data) = {Alice, DependabotBot} => NamesOf(pout'.val) = {Alice}
      ]_vars

\* filterBotAccounts has dropped a bot written with a capital letter and a
\* user whose name merely contains "bot", and kept the others
BotsFilteredWitness ==
    /\ pout.fn = "filterBotAccounts"
    /\ NamesOf(pin.prData.data) = UserNames
    /\ NamesOf(pout.val) = {Alice, Bob}

----------------------------------------------------------------------------
(* Claims about generateKey                                                *)

\* the same names bound to the same values
SameBindings(p, q) == {p[i] : i \in 1..Len(p)} = {q[i] : i \in 1..Len(q)}

\* C20: generateKey is a function of its arguments that gives the same key for
\* the same namespace and any two parameter objects binding the same names to
\* the same values, in whatever order they were inserted, and a call leaves
\* the cache as it was.
KeyIgnoresInsertionOrder ==
    [][(pout.fn = "" /\ pout'.fn = "generateKey") =>
        /\ \A q \in ParamObjects :
              SameBindings(q, pin.params) => GenerateKey(pin.type, q) = pout'.val
        /\ UNCHANGED <<cache, maxSize, currentSize, hitCount, missCount>>
        /\ pin' = pin
      ]_vars

\* a key was generated for three parameters that were not inserted in sorted order
KeyIgnoresInsertionOrderWitness ==
    /\ pout.fn = "generateKey"
    /\ Len(pin.params) = MaxParams
    /\ LessStr(pin.params[2][1], pin.params[1][1])
    /\ LessStr(pin.params[3][1], pin.params[2][1])

----------------------------------------------------------------------------
\* C23: in every reachable state the cache holds at most maxSize bytes:
\* currentSize <= maxSize, whatever sequence of operations led there.
CapacityRespected == currentSize <= maxSize

\* a set that had to evict to make room, and left entries in the cache
CapacityRespectedWitness ==
    /\ op.name = "set"
    /\ op.victims # <<>>
    /\ Len(cache) > 1

----------------------------------------------------------------------------
(* Claims about the callers of the cache                                   *)

\* C21: under every interleaving of overlapping cached() calls (get, an
\* awaited producer, set) on the shared cache, currentSize equals the sum of
\* the sizes of the stored entries, and no key is stored twice.
FlowsKeepSizeAccounting ==
    /\ currentSize = SumSizes(cache)
    /\ \A i, j \in 1..Len(cache) : cache[i].key = cache[j].key => i = j

\* two calls for the same key both missed and waited together, the second to
\* finish replaced the entry of the first, and another entry is stored
FlowsKeepSizeAccountingWitness ==
    /\ \E f \in Flows : flow[f].raced /\ flow[f].pc = "done" /\ ~flow[f].threw
    /\ \A f \in Flows : flow[f].pc = "done" /\ flow[f].invoked /\ flow[f].key = "A"
    /\ op.name = "set" /\ op.path = "replaced"
    /\ Len(cache) = 2

\* C25: a cached(key, fn, ttl) call that finds an entry for the key that is
\* not expired returns the stored value without invoking fn, whatever value
\* was stored (null included); and a call whose producer resolved receives the
\* producer's result also when the cache refused to store it.
CachedInvokesOnlyOnMiss ==
    [][\A f \in Flows :
        /\ (flow[f].pc \in {"idle", "done"} /\ flow'[f] # flow[f] /\ getCalls' = getCalls + 1)
              => \A k \in FlowKeys :
                    (op'.key = k /\ Has(cache, k) /\ Entry(cache, k).expiresAt >= now)
                        => /\ flow'[f].pc = "done"
                           /\ ~flow'[f].invoked
                           /\ flow'[f].ret = Entry(cache, k).data
        /\ (flow[f].pc = "awaiting" /\ flow'[f].pc = "done" /\ op'.name = "set"
                /\ op'.ret = JBool(FALSE) /\ op' # op)
              => flow'[f].ret.t # "none" /\ ByteLength(Stringify(flow'[f].ret)) > maxSize
      ]_vars

\* the keys whose entry a step created or replaced
Written == {i \in 1..Len(cache') : ~Has(cache, cache'[i].key)
                                    \/ Entry(cache, cache'[i].key) # cache'[i]}

\* a step that starts the invocation of a GET under /api/
GetInvoked == /\ lam' # lam
              /\ lam.pc \in {"idle", "done"} /\ lam.pending = {}
              /\ lam'.method = "GET" /\ StartsWith(lam'.path, ApiPrefix)
              /\ getCalls' = getCalls + 1

\* C22: a GET under /api/ with a live entry under generateKey(path, query) is
\* answered from the cache (200, X-Cache: HIT, router not invoked), otherwise
\* the router is invoked; an entry is created or replaced only with the body
\* of a 200 answer to a GET, under the key of the request and with the TTL of
\* five minutes; no HIT replays an error body.
HandlerCachesOnlyGet200 ==
    [][/\ GetInvoked =>
            LET key == RequestKey(lam'.path)
            IN IF Has(cache, key) /\ Entry(cache, key).expiresAt >= now
               THEN /\ lam'.pc = "done" /\ lam'.status = 200 /\ lam'.xcache = "HIT"
                    /\ ~lam'.routed
                    /\ lam'.body = Entry(cache, key).data
               ELSE lam'.routed /\ lam'.xcache # "HIT"
       /\ \A i \in Written :
            /\ lam.method = "GET" /\ lam'.status = 200
            /\ cache'[i].key = RequestKey(lam.path)
            /\ cache'[i].data = lam'.body
            /\ cache'[i].expiresAt = now + Ttl5min
       /\ lam'.xcache = "HIT" => lam'.body # ErrorBody
      ]_vars

WritePaths == {RunPythonPath, UpdateTeamsPath}

\* C26: no step of a POST /run-python or POST /update-teams invocation changes
\* the cache (entries, order, size, counters), whether the update succeeds
\* or not; a GET of /api/teams or /api/review-data that finds a live entry
\* gets its body with X-Cache: HIT, also when the stored data has changed
\* since the body was cached.
WritesLeaveCacheUnchanged ==
    [][/\ (lam' # lam /\ lam'.method = "POST" /\ lam'.path \in WritePaths)
            => /\ cache' = cache /\ currentSize' = currentSize
               /\ hitCount' = hitCount /\ missCount' = missCount
       /\ (GetInvoked /\ lam'.path \in {TeamsPath, ReviewDataPath}
             /\ Has(cache, RequestKey(lam'.path))
             /\ Entry(cache, RequestKey(lam'.path)).expiresAt >= now)
            => /\ lam'.xcache = "HIT"
               /\ lam'.body = Entry(cache, RequestKey(lam'.path)).data
               /\ cache' = MoveToEnd(cache, RequestKey(lam'.path))
      ]_vars

\* after a successful POST /update-teams, GET /api/teams was answered with
\* the body cached before the update
WritesLeaveCacheUnchangedWitness ==
    /\ lam.pc = "done" /\ lam.path = TeamsPath /\ lam.xcache = "HIT"
    /\ store.teams = 1
    /\ lam.body = TeamsBody([teams |-> 0, prs |-> 0])
    /\ Has(cache, RequestKey(TeamsPath))

\* the operation that finished in this step, 0 if none did
Finished == IF Len(lam'.order) = Len(lam.order) + 1 /\ lam.ops # <<>> /\ lam'.ops = lam.ops
            THEN lam'.order[Len(lam'.order)] ELSE 0

\* C30: an operation that finishes writes only the entries of its own type:
\* its result replaces the result an earlier operation of the type left (the
\* last to finish is the one reported), the entries of the other types stay
\* as they are; a failed operation is recorded under errors, not as a
\* result, and the batch is answered with status 200.
BatchRecordsPerType ==
    [][/\ Finished # 0 =>
            LET o == lam.ops[Finished]
            IN /\ \A t \in BatchTypes \ {o.type} :
                      /\ lam'.results[t] = lam.results[t]
                      /\ lam'.errors[t] = lam.errors[t]
               /\ lam'.results[o.type] # lam.results[o.type]
                      => lam'.results[o.type] \in
                            {op'.ret, OpValue(o, TRUE), OpValue(o, FALSE)} \ {ErrorBody}
               /\ lam'.errors[o.type] # NoValue \/ lam'.results[o.type] # NoValue
               /\ lam'.results[o.type] # ErrorBody
       /\ (lam.pc = "router" /\ lam.path = BatchPath /\ lam.kind = "batch"
             /\ lam.method = "POST" /\ lam'.pc = "done")
            => lam'.status = 200
      ]_vars


----------------------------------------------------------------------------
(* Claims about compressLargeFields / decompressLargeFields and the team   *)
(* item                                                                    *)

\* the properties of o that carry __compressed: true
CompressedFieldsOf(o) ==
    {i \in 1..Len(o.v) : FieldOf(o.v[i][2], StrCompressedMark) = JBool(TRUE)}

\* C29: for an object obj and a field list F, what compressLargeFields(obj, F)
\* returns carries __hasCompressedFields: true exactly when one of its fields
\* carries __compressed: true, and decompressLargeFields of it with F is equal
\* to obj, with no marker key left, whether or not a field was compressed.
LargeFieldsRoundTrip ==
    pin.obj.t = "obj" =>
        /\ pout.fn = "compressLargeFields" =>
              (FieldOf(pout.val, StrHasCompressedFields) = JBool(TRUE)
                  <=> CompressedFieldsOf(pout.val) # {})
        /\ pout.fn = "decompressLargeFields" =>
              /\ pout.val = pin.obj
              /\ ~HasField(pout.val, StrHasCompressedFields)
              /\ CompressedFieldsOf(pout.val) = {}

\* C27: getTeamData() after saveTeamData(teamData) returns teamData, whether
\* its serialized size is below or above the 1024 bytes from which
\* saveTeamData stores the teams field as a compressed envelope.
TeamDataRoundTrip ==
    pout.fn = "getTeamData" => pout.val = FieldOf(pin.obj, StrTeams)

====
